---- MODULE Spec2Model ----
(***************************************************************************)
(* Voxeldoro: the voxel simulation and assembly engine (VoxelEngine of     *)
(* src/unnamed/part_002).  The engine's fields are the variables, every    *)
(* public method and the per-frame animate() callback is one action.       *)
(* Spec explores every interleaving of them to a fixed depth, SpecCycle    *)
(* one rebuild cycle with late frames, SpecAuto an unattended rebuild      *)
(* under fair frames, SpecDoc the engine printed in src/AI_AND_JSON.md,    *)
(* SpecSwitch a model switch and back, SpecPalette the colour matching     *)
(* over three colours, SpecNormalize the App's normalizer, SpecApp the App *)
(* component driving the engine, SpecSession a timed session of it under   *)
(* fair effects and timers, SpecDelayed the App of src/unnamed/part_005    *)
(* with its delayed rebuild, and SpecScrub a progressive rebuild scrubbed  *)
(* while frames run.                                                       *)
(*                                                                         *)
(* Numbers.  Positions, velocities and rotations are JavaScript doubles;   *)
(* here they are fixed-point integers in units of 1/Fixed (Fixed = 1000),  *)
(* products with the source's decimal factors (0.15, 0.98, 0.1, ...) are   *)
(* truncated toward zero.  A colour is its 24-bit hex integer.  A delay is *)
(* the exact fraction [num, den] the source computes (targetIdx / length). *)
(* The stored progress is an integer in units of 1/ProgressScale.          *)
(* Sequences are 1-based: slot i of the model is index i-1 of the source.  *)
(***************************************************************************)
EXTENDS Integers, Sequences, FiniteSets, TLC

\* ---------------------------------------------------------------- bounds
\* longest voxel list handed to loadInitialModel / rebuild
MaxVoxels == 2
\* public calls and animate() frames explored after construction
MaxSteps == 3
\* last value of the wall clock, in units of ClockUnitMs
MaxNow == 2
\* resolution of the progress values handed to setProgress
ProgressScale == 2
\* calls and frames explored after the rebuild of a rebuild cycle
MaxCycleSteps == 2
\* frames counted since the last public call of a scrub session
MaxTicks == 100

\* ------------------------------------------------------- number formats
\* fixed-point resolution of every float field of a SimulationVoxel
Fixed == 1000
\* milliseconds of Date.now() per unit of the model's clock
ClockUnitMs == 1000

\* truncating division (toward zero), the model of a float product
TDiv(a, b) == IF a >= 0 THEN a \div b ELSE -((-a) \div b)
Scale(a, num, den) == TDiv(a * num, den)
Abs(a) == IF a >= 0 THEN a ELSE -a

RECURSIVE ISqrtBetween(_, _, _)
ISqrtBetween(n, lo, hi) ==
    IF lo >= hi THEN lo
    ELSE LET mid == (lo + hi + 1) \div 2
         IN  IF mid * mid <= n THEN ISqrtBetween(n, mid, hi)
                               ELSE ISqrtBetween(n, lo, mid - 1)
\* Math.sqrt of a sum of squares n whose root is at most hi, rounded down
ISqrt(n, hi) == ISqrtBetween(n, 0, hi)

\* --------------------------------------------------------- configuration
\* CONFIG.FLOOR_Y of utils/voxelConstants
FLOOR_Y == -12
\* y of a rubble destination and of hidden rubble: CONFIG.FLOOR_Y - 300
RubbleY == (FLOOR_Y - 300) * Fixed
\* v.y > CONFIG.FLOOR_Y - 5 : still falling; below it a locked voxel parks
HideY == (FLOOR_Y - 5) * Fixed
\* parking height of a locked voxel: CONFIG.FLOOR_Y - 10
ParkY == (FLOOR_Y - 10) * Fixed
\* v.vy -= 0.006
GRAVITY == 6
\* v.vx *= 0.98
DRAG_PCT == 98
\* const lerpSpeed = 0.15
LERP_PCT == 15
\* ( (CONFIG.FLOOR_Y - 10) - v.y ) * 0.1
PARK_PCT == 10
\* delay of a rubble entry and of the temporary targets
RUBBLE_DELAY == 2

\* ------------------------------------------------------------ AppState
STABLE == "STABLE"
DISMANTLING == "DISMANTLING"
REBUILDING == "REBUILDING"
AppState == {STABLE, DISMANTLING, REBUILDING}

\* ------------------------------------------------------------- inputs
\* VoxelData records the driver hands in: integer grid position, hex colour
\* (255 = 0x0000ff blue on top, 16711680 = 0xff0000 red on the ground)
VoxelPool ==
    { [x |-> 0, y |-> 1, z |-> 0, color |-> 255],
      [x |-> 1, y |-> 0, z |-> 1, color |-> 16711680] }

RECURSIVE SeqsUpTo(_, _)
SeqsUpTo(S, n) ==
    IF n = 0 THEN { << >> }
    ELSE LET shorter == SeqsUpTo(S, n - 1)
         IN  shorter \cup { Append(s, d) : s \in { t \in shorter : Len(t) = n - 1 }, d \in S }

\* the voxel lists of the model: every list of at most MaxVoxels pool entries
Models == SeqsUpTo(VoxelPool, MaxVoxels)

\* values handed to setProgress, in units of 1/ProgressScale: 0 .. 1.5
ProgressValues == 0 .. (ProgressScale + ProgressScale \div 2)

\* one run of Math.random() results (units of 1/Fixed) used by a dismantle:
\* force, vy, rvx, rvy, rvz of every voxel
RandomStreams ==
    { << 0, 0, 0, 0, 0 >>,
      << 500, 999, 999, 0, 500 >> }

\* ------------------------------------------------------------- colours
\* THREE.Color(hex).r as an integer 0..255 (the red byte)
RedOf(hex) == (hex \div 65536) % 256
\* Math.abs(available[i].color.r - new THREE.Color(target.color).r), in 1/255
ColorDist(hex1, hex2) == Abs(RedOf(hex1) - RedOf(hex2))
\* d < 0.01 with d in units of 1/255
NearColor(d) == d * 100 < 255
\* let bestDist = 9999, in units of 1/255
BEST_DIST_INIT == 9999 * 255

\* ------------------------------------------------------- the voxel store
\* createVoxels: one SimulationVoxel per VoxelData, at rest on its position
NewVoxel(d, i) ==
    [ id |-> i - 1,
      x |-> d.x * Fixed, y |-> d.y * Fixed, z |-> d.z * Fixed, color |-> d.color,
      vx |-> 0, vy |-> 0, vz |-> 0, rx |-> 0, ry |-> 0, rz |-> 0,
      rvx |-> 0, rvy |-> 0, rvz |-> 0 ]

\* a RebuildTarget; a missing isRubble (loadInitialModel) reads as false
Target(px, py, pz, num, den, rubble) ==
    [ x |-> px, y |-> py, z |-> pz, delay |-> [num |-> num, den |-> den], isRubble |-> rubble ]

\* an unlock test that reads the clock in both modes
IsUnlockedByClock(e, t, now) ==
    (now - e.rebuildStartTime) * ClockUnitMs * t.delay.den > 2 * t.delay.num * 1000
\* this.isProgressive ? (this.manualProgress >= t.delay) : (elapsed > t.delay * 2)
\* with elapsed = (now - this.rebuildStartTime) / 1000
IsUnlocked(e, t, now) ==
    IF e.isProgressive
    THEN e.manualProgress * t.delay.den >= t.delay.num * ProgressScale
    ELSE (now - e.rebuildStartTime) * ClockUnitMs * t.delay.den > 2 * t.delay.num * 1000

\* draw(): the scale written for slot i
ScaleOf(e, i, now) ==
    LET v == e.voxels[i]
    IN  IF e.state = STABLE THEN "FULL"
        ELSE IF e.state = REBUILDING
        THEN IF i > Len(e.rebuildTargets) \/ e.rebuildTargets[i].isRubble THEN "TINY"
             ELSE IF ~IsUnlocked(e, e.rebuildTargets[i], now)
                  THEN IF v.y < HideY THEN "TINY" ELSE "FULL"
                  ELSE "FULL"
        ELSE "FULL"

\* draw(): whether slot i adds to activeCount
CountsActive(e, i, now) ==
    IF e.state = STABLE THEN TRUE
    ELSE IF e.state = REBUILDING
    THEN /\ i <= Len(e.rebuildTargets)
         /\ ~e.rebuildTargets[i].isRubble
         /\ IsUnlocked(e, e.rebuildTargets[i], now)
    ELSE FALSE

\* draw(): writes the instance buffer and reports (activeCount, total)
Draw(e, now) ==
    IF ~e.hasMesh THEN e
    ELSE [ e EXCEPT
             !.frame = [ i \in 1 .. Len(e.voxels) |-> ScaleOf(e, i, now) ],
             !.counts = << Cardinality({ i \in 1 .. Len(e.voxels) : CountsActive(e, i, now) }),
                           Len(e.voxels) >> ]

\* a createVoxels that keeps a store of the right length as it is
CreateVoxelsIfResized(e, data, now) ==
    IF Len(data) = Len(e.voxels) /\ e.hasMesh THEN Draw(e, now)
    ELSE Draw([ e EXCEPT !.voxels = [ i \in 1 .. Len(data) |-> NewVoxel(data[i], i) ],
                         !.hasMesh = TRUE ], now)
\* createVoxels(data): replaces the whole store and the instanced mesh, draws
CreateVoxels(e, data, now) ==
    Draw([ e EXCEPT !.voxels = [ i \in 1 .. Len(data) |-> NewVoxel(data[i], i) ],
                    !.hasMesh = TRUE ], now)

\* loadInitialModel(data)
LoadInitialModelOp(e, data, now) ==
    LET e1 == [ e EXCEPT !.state = STABLE, !.notified = STABLE, !.fired = TRUE,
                         !.manualProgress = 0,
                         !.rebuildTargets =
                             [ i \in 1 .. Len(data) |->
                                 Target(data[i].x * Fixed, data[i].y * Fixed, data[i].z * Fixed,
                                        0, 1, FALSE) ] ]
        e2 == CreateVoxels(e1, data, now)
    IN  [ e2 EXCEPT !.counts = << Len(data), Len(data) >> ]

\* ---------------------------------------------------------------- dismantle
RECURSIVE SumOf(_, _, _)
SumOf(vs, f, i) == IF i > Len(vs) THEN 0 ELSE vs[i][f] + SumOf(vs, f, i + 1)

\* center.divideScalar(this.voxels.length) of the summed positions
Center(vs, f) == TDiv(SumOf(vs, f, 1), Len(vs))

\* new THREE.Vector3(dx, dy * 0.1, dz).normalize(): component c, in 1/Fixed
DirOf(dx, dy, dz, c) ==
    LET sy == Scale(dy, 1, 10)
        len == ISqrt(dx * dx + sy * sy + dz * dz, Abs(dx) + Abs(sy) + Abs(dz))
    IN  IF len = 0 THEN 0 ELSE TDiv(c * Fixed, len)

\* dismantle(): rnd is the run of Math.random() results of one voxel
DismantleVoxel(v, cx, cy, cz, rnd) ==
    LET dx == v.x - cx
        dy == v.y - cy
        dz == v.z - cz
        force == 100 + Scale(rnd[1], 150, 1000)
    IN  [ v EXCEPT !.vx = Scale(DirOf(dx, dy, dz, dx), force, Fixed),
                   !.vy = Scale(rnd[2], 150, 1000) + 100,
                   !.vz = Scale(DirOf(dx, dy, dz, dz), force, Fixed),
                   !.rvx = Scale(rnd[3] - 500, 100, 1000),
                   !.rvy = Scale(rnd[4] - 500, 100, 1000),
                   !.rvz = Scale(rnd[5] - 500, 100, 1000) ]

\* a dismantle that changes the state without telling the driver
DismantleOpSilent(e, rnd) ==
    LET vs == e.voxels
    IN  [ e EXCEPT !.state = DISMANTLING, !.fired = FALSE,
                   !.voxels = IF Len(vs) = 0 THEN vs
                              ELSE [ i \in 1 .. Len(vs) |->
                                       DismantleVoxel(vs[i], Center(vs, "x"), Center(vs, "y"),
                                                      Center(vs, "z"), rnd) ] ]
\* dismantle()
DismantleOp(e, rnd) ==
    LET vs == e.voxels
    IN  [ e EXCEPT !.state = DISMANTLING, !.notified = DISMANTLING, !.fired = TRUE,
                   !.voxels = IF Len(vs) = 0 THEN vs
                              ELSE [ i \in 1 .. Len(vs) |->
                                       DismantleVoxel(vs[i], Center(vs, "x"), Center(vs, "y"),
                                                      Center(vs, "z"), rnd) ] ]

\* ------------------------------------------------ finishRebuild, setProgress
\* a finish that snaps positions but leaves velocity and rotation
FinishVoxelMoving(v, t) ==
    IF ~t.isRubble
    THEN [ v EXCEPT !.x = t.x, !.y = t.y, !.z = t.z ]
    ELSE [ v EXCEPT !.y = RubbleY ]
\* finishRebuild(): the body of its forEach
FinishVoxel(v, t) ==
    IF ~t.isRubble
    THEN [ v EXCEPT !.x = t.x, !.y = t.y, !.z = t.z,
                    !.rx = 0, !.ry = 0, !.rz = 0, !.vx = 0, !.vy = 0, !.vz = 0 ]
    ELSE [ v EXCEPT !.y = RubbleY ]

\* a finish that leaves the stored progress as it was
FinishRebuildKeepsProgress(e, now) ==
    Draw([ e EXCEPT !.state = STABLE, !.notified = STABLE, !.fired = TRUE,
                    !.voxels = [ i \in 1 .. Len(e.voxels) |->
                                   IF i <= Len(e.rebuildTargets)
                                   THEN FinishVoxel(e.voxels[i], e.rebuildTargets[i])
                                   ELSE e.voxels[i] ] ], now)
\* finishRebuild() up to its onStateChange(STABLE) call: the engine a listener
\* reads from inside the callback
FinishNotify(e) ==
    [ e EXCEPT !.manualProgress = ProgressScale,
               !.state = STABLE, !.notified = STABLE, !.fired = TRUE ]
\* finishRebuild()
FinishRebuildOp(e, now) ==
    LET e1 == FinishNotify(e)
    IN  Draw([ e1 EXCEPT !.voxels = [ i \in 1 .. Len(e.voxels) |->
                                        IF i <= Len(e.rebuildTargets)
                                        THEN FinishVoxel(e.voxels[i], e.rebuildTargets[i])
                                        ELSE e.voxels[i] ] ], now)

\* setProgress(p)
SetProgressOp(e, p, now) ==
    LET e1 == [ e EXCEPT !.manualProgress = p, !.fired = FALSE ]
    IN  IF p >= ProgressScale /\ e.state = REBUILDING THEN FinishRebuildOp(e1, now) ELSE e1

\* ------------------------------------------------------------------ rebuild
RECURSIVE InsertByY(_, _, _)
\* position of d in the stable order: after every element whose y is not larger
InsertByY(sorted, d, i) ==
    IF i > Len(sorted) THEN Append(sorted, d)
    ELSE IF sorted[i].y > d.y
         THEN SubSeq(sorted, 1, i - 1) \o << d >> \o SubSeq(sorted, i, Len(sorted))
         ELSE InsertByY(sorted, d, i + 1)

RECURSIVE SortFrom(_, _, _)
SortFrom(data, i, acc) ==
    IF i > Len(data) THEN acc ELSE SortFrom(data, i + 1, InsertByY(acc, data[i], 1))

\* the targets taken in the order they were handed in
SortSkipped(data) == data
\* [...targetModel].sort((a, b) => a.y - b.y): stable, ascending y
SortByY(data) == SortFrom(data, 1, << >>)

RECURSIVE ScanBest(_, _, _, _, _, _)
\* the inner for-loop of rebuild: index of the voxel claimed for a target of
\* colour tc, 0 when every voxel is taken (bestIdx = -1)
ScanBest(colors, taken, tc, i, bestDist, bestIdx) ==
    IF i > Len(colors) THEN bestIdx
    ELSE IF i \in taken THEN ScanBest(colors, taken, tc, i + 1, bestDist, bestIdx)
    ELSE LET d == ColorDist(colors[i], tc)
         IN  IF d < bestDist
             THEN IF NearColor(d) THEN i
                  ELSE ScanBest(colors, taken, tc, i + 1, d, i)
             ELSE ScanBest(colors, taken, tc, i + 1, bestDist, bestIdx)

\* a claim that is forgotten: the voxel stays available
TakeForgets(taken, vIdx) == taken
\* available[bestIdx].taken = true
Take(taken, vIdx) == taken \cup { vIdx }

\* a match that leaves the voxel's old colour
RecolorSkipped(colors, vIdx, hex) == colors
\* this.voxels[vIdx].color.setHex(target.color)
Recolor(colors, vIdx, hex) == [ colors EXCEPT ![vIdx] = hex ]

RECURSIVE AssignFrom(_, _, _)
\* sortedTargets.forEach: acc.mappings[slot] is 0 (null) or k for sorted target
\* k (targetIdx = k - 1); acc.colors the voxel colours; acc.matches the pairs
\* << targetIdx, slot >> in the order they were made
AssignFrom(sorted, k, acc) ==
    IF k > Len(sorted) THEN acc
    ELSE LET bestIdx == ScanBest(acc.colors, acc.taken, sorted[k].color, 1, BEST_DIST_INIT, 0)
         IN  IF bestIdx = 0 THEN AssignFrom(sorted, k + 1, acc)
             ELSE AssignFrom(sorted, k + 1,
                    [ taken |-> Take(acc.taken, bestIdx),
                      mappings |-> [ acc.mappings EXCEPT ![bestIdx] = k ],
                      colors |-> Recolor(acc.colors, bestIdx, sorted[k].color),
                      matches |-> Append(acc.matches, << k - 1, bestIdx >>) ])

\* the assignment of rebuild for a store with the given colours
Assign(colors, sorted) ==
    AssignFrom(sorted, 1,
               [ taken |-> {},
                 mappings |-> [ i \in 1 .. Len(colors) |-> 0 ],
                 colors |-> colors,
                 matches |-> << >> ])

\* an unmatched slot that is not flagged as rubble
MappingOfUnflagged(a, sorted, i) ==
    IF a.mappings[i] = 0
    THEN Target(0, RubbleY, 0, RUBBLE_DELAY, 1, FALSE)
    ELSE LET k == a.mappings[i]
         IN  Target(sorted[k].x * Fixed, sorted[k].y * Fixed, sorted[k].z * Fixed,
                    k - 1, Len(sorted), FALSE)
\* a delay counted from one: the last target of the list gets delay 1
MappingOfLate(a, sorted, i) ==
    IF a.mappings[i] = 0
    THEN Target(0, RubbleY, 0, RUBBLE_DELAY, 1, TRUE)
    ELSE LET k == a.mappings[i]
         IN  Target(sorted[k].x * Fixed, sorted[k].y * Fixed, sorted[k].z * Fixed,
                    k, Len(sorted), FALSE)
\* mappings[i] after the rubble fill
MappingOf(a, sorted, i) ==
    IF a.mappings[i] = 0
    THEN Target(0, RubbleY, 0, RUBBLE_DELAY, 1, TRUE)
    ELSE LET k == a.mappings[i]
         IN  Target(sorted[k].x * Fixed, sorted[k].y * Fixed, sorted[k].z * Fixed,
                    k - 1, Len(sorted), FALSE)

\* a mappings array sized by the target list instead of the store
MappingsPerTarget(a, sorted, n) ==
    [ i \in 1 .. (IF Len(sorted) < n THEN Len(sorted) ELSE n) |-> MappingOf(a, sorted, i) ]
\* new Array(this.voxels.length), filled by the forEach and the rubble loop
Mappings(a, sorted, n) == [ i \in 1 .. n |-> MappingOf(a, sorted, i) ]

\* a rebuild that never reallocates: the longer target list is truncated
GrowStoreNever(e, targetModel, now) == e
\* the store rebuild assigns on: replaced by createVoxels when the target is longer
GrowStore(e, targetModel, now) ==
    IF Len(targetModel) > Len(e.voxels)
    THEN CreateVoxels([ e EXCEPT !.rebuildTargets =
                          [ i \in 1 .. Len(targetModel) |->
                              Target(targetModel[i].x * Fixed, targetModel[i].y * Fixed,
                                     targetModel[i].z * Fixed, RUBBLE_DELAY, 1, FALSE) ] ],
                      targetModel, now)
    ELSE e

\* a rebuild that lets a voxel already standing on its target unlock at once:
\* the delays then depend on where the voxels are
RebuildOpInPlace(e, targetModel, progressive, now) ==
    LET e1 == [ e EXCEPT !.state = REBUILDING, !.notified = REBUILDING, !.fired = TRUE,
                         !.isProgressive = progressive ]
        e2 == GrowStore(e1, targetModel, now)
        sorted == SortByY(targetModel)
        a == Assign([ i \in 1 .. Len(e2.voxels) |-> e2.voxels[i].color ], sorted)
        m == Mappings(a, sorted, Len(e2.voxels))
    IN  [ e2 EXCEPT !.voxels = [ i \in 1 .. Len(e2.voxels) |->
                                   [ e2.voxels[i] EXCEPT !.color = a.colors[i] ] ],
                    !.rebuildTargets =
                        [ i \in 1 .. Len(e2.voxels) |->
                            IF /\ e2.voxels[i].x = m[i].x
                               /\ e2.voxels[i].y = m[i].y
                               /\ e2.voxels[i].z = m[i].z
                            THEN [ m[i] EXCEPT !.delay = [ num |-> 0, den |-> 1 ] ]
                            ELSE m[i] ],
                    !.rebuildStartTime = now,
                    !.matches = a.matches ]
\* a rebuild that stops every voxel where it is, as the engine printed in
\* src/AI_AND_JSON.md does before it sinks them
RebuildOpAtRest(e, targetModel, progressive, now) ==
    LET e1 == [ e EXCEPT !.state = REBUILDING, !.notified = REBUILDING, !.fired = TRUE,
                         !.isProgressive = progressive ]
        e2 == GrowStore(e1, targetModel, now)
        sorted == SortByY(targetModel)
        a == Assign([ i \in 1 .. Len(e2.voxels) |-> e2.voxels[i].color ], sorted)
    IN  [ e2 EXCEPT !.voxels = [ i \in 1 .. Len(e2.voxels) |->
                                   [ e2.voxels[i] EXCEPT !.color = a.colors[i],
                                                         !.vx = 0, !.vy = 0, !.vz = 0 ] ],
                    !.rebuildTargets = Mappings(a, sorted, Len(e2.voxels)),
                    !.rebuildStartTime = now,
                    !.matches = a.matches ]
\* rebuild(targetModel, progressive)
RebuildOp(e, targetModel, progressive, now) ==
    LET e1 == [ e EXCEPT !.state = REBUILDING, !.notified = REBUILDING, !.fired = TRUE,
                         !.isProgressive = progressive ]
        e2 == GrowStore(e1, targetModel, now)
        sorted == SortByY(targetModel)
        a == Assign([ i \in 1 .. Len(e2.voxels) |-> e2.voxels[i].color ], sorted)
    IN  [ e2 EXCEPT !.voxels = [ i \in 1 .. Len(e2.voxels) |->
                                   [ e2.voxels[i] EXCEPT !.color = a.colors[i] ] ],
                    !.rebuildTargets = Mappings(a, sorted, Len(e2.voxels)),
                    !.rebuildStartTime = now,
                    !.matches = a.matches ]

\* ------------------------------------------------------------------ animate
\* free fall: the DISMANTLING rule, also applied to a locked voxel above HideY
Fall(v) ==
    LET vy1 == v.vy - GRAVITY
    IN  [ v EXCEPT !.vy = vy1, !.x = v.x + v.vx, !.y = v.y + vy1, !.z = v.z + v.vz,
                   !.rx = v.rx + v.rvx, !.ry = v.ry + v.rvy, !.rz = v.rz + v.rvz,
                   !.vx = Scale(v.vx, DRAG_PCT, 100), !.vz = Scale(v.vz, DRAG_PCT, 100) ]

\* an interpolation in the ground plane only
LerpHorizontal(v, t) ==
    [ v EXCEPT !.x = v.x + Scale(t.x - v.x, LERP_PCT, 100),
               !.z = v.z + Scale(t.z - v.z, LERP_PCT, 100),
               !.rx = v.rx + Scale(0 - v.rx, LERP_PCT, 100),
               !.ry = v.ry + Scale(0 - v.ry, LERP_PCT, 100),
               !.rz = v.rz + Scale(0 - v.rz, LERP_PCT, 100),
               !.vx = 0, !.vy = 0, !.vz = 0 ]

\* an unlocked voxel: interpolate toward its target
Lerp(v, t) ==
    [ v EXCEPT !.x = v.x + Scale(t.x - v.x, LERP_PCT, 100),
               !.y = v.y + Scale(t.y - v.y, LERP_PCT, 100),
               !.z = v.z + Scale(t.z - v.z, LERP_PCT, 100),
               !.rx = v.rx + Scale(0 - v.rx, LERP_PCT, 100),
               !.ry = v.ry + Scale(0 - v.ry, LERP_PCT, 100),
               !.rz = v.rz + Scale(0 - v.rz, LERP_PCT, 100),
               !.vx = 0, !.vy = 0, !.vz = 0 ]

\* a locked voxel at or below HideY: settle toward the parking height
Park(v) ==
    [ v EXCEPT !.y = v.y + Scale(ParkY - v.y, PARK_PCT, 100), !.vx = 0, !.vy = 0, !.vz = 0 ]

\* a REBUILDING branch without the isRubble test: rubble is moved like any voxel
RebuildStepRubbleToo(e, i, now) ==
    LET v == e.voxels[i]
    IN  IF i > Len(e.rebuildTargets) THEN v
        ELSE IF IsUnlocked(e, e.rebuildTargets[i], now) THEN Lerp(v, e.rebuildTargets[i])
        ELSE IF v.y > HideY THEN Fall(v)
        ELSE Park(v)
\* a REBUILDING branch that leaves a locked voxel where it is
RebuildStepLockedRests(e, i, now) ==
    LET v == e.voxels[i]
    IN  IF i > Len(e.rebuildTargets) \/ e.rebuildTargets[i].isRubble THEN v
        ELSE IF IsUnlocked(e, e.rebuildTargets[i], now) THEN Lerp(v, e.rebuildTargets[i])
        ELSE v
\* the REBUILDING branch of animate for slot i
RebuildStep(e, i, now) ==
    LET v == e.voxels[i]
    IN  IF i > Len(e.rebuildTargets) \/ e.rebuildTargets[i].isRubble THEN v
        ELSE IF IsUnlocked(e, e.rebuildTargets[i], now) THEN Lerp(v, e.rebuildTargets[i])
        ELSE IF v.y > HideY THEN Fall(v)
        ELSE Park(v)

\* a frame that integrates gravity whenever the engine is not REBUILDING
AnimateOpNeverRests(e, now) ==
    LET e1 == IF e.state = REBUILDING
              THEN [ e EXCEPT !.voxels = [ i \in 1 .. Len(e.voxels) |-> RebuildStep(e, i, now) ] ]
              ELSE [ e EXCEPT !.voxels = [ i \in 1 .. Len(e.voxels) |-> Fall(e.voxels[i]) ] ]
    IN  Draw([ e1 EXCEPT !.fired = FALSE ], now)
\* animate(): one frame
AnimateOp(e, now) ==
    LET e1 == IF e.state = DISMANTLING
              THEN [ e EXCEPT !.voxels = [ i \in 1 .. Len(e.voxels) |-> Fall(e.voxels[i]) ] ]
              ELSE IF e.state = REBUILDING
              THEN [ e EXCEPT !.voxels = [ i \in 1 .. Len(e.voxels) |-> RebuildStep(e, i, now) ] ]
              ELSE e
    IN  Draw([ e1 EXCEPT !.fired = FALSE ], now)

\* ------------------------------------------------------------------- state
VARIABLES
    voxels,            \* this.voxels
    rebuildTargets,    \* this.rebuildTargets
    rebuildStartTime,  \* this.rebuildStartTime
    state,             \* this.state
    isProgressive,     \* this.isProgressive
    manualProgress,    \* this.manualProgress
    hasMesh,           \* this.instanceMesh !== null
    frame,             \* scales last written to the instance buffer
    counts,            \* last (active, total) handed to onCountChange
    notified,          \* last state handed to onStateChange
    fired,             \* whether the last call or frame invoked onStateChange
    matches,           \* pairs << targetIdx, slot >> made by the last rebuild
    now,               \* Date.now()
    steps,             \* calls and frames so far
    call,              \* the last step: its name, its arguments, the state and
                       \* the store size it started from
    pending,           \* the target list of the last rebuild, while only
                       \* frames, setProgress and finishRebuild followed it
    app                \* the React state of the App component that owns the
                       \* engine (src/AI_AND_JSON.md)

vars == << voxels, rebuildTargets, rebuildStartTime, state, isProgressive, manualProgress,
           hasMesh, frame, counts, notified, fired, matches, now, steps, call, pending,
           app >>

\* the engine object
Engine ==
    [ voxels |-> voxels, rebuildTargets |-> rebuildTargets,
      rebuildStartTime |-> rebuildStartTime, state |-> state,
      isProgressive |-> isProgressive, manualProgress |-> manualProgress,
      hasMesh |-> hasMesh, frame |-> frame, counts |-> counts, notified |-> notified,
      fired |-> fired, matches |-> matches ]

\* the engine's fields after a call that returned e
FieldsBecome(e) ==
    /\ voxels' = e.voxels
    /\ rebuildTargets' = e.rebuildTargets
    /\ rebuildStartTime' = e.rebuildStartTime
    /\ state' = e.state
    /\ isProgressive' = e.isProgressive
    /\ manualProgress' = e.manualProgress
    /\ hasMesh' = e.hasMesh
    /\ frame' = e.frame
    /\ counts' = e.counts
    /\ notified' = e.notified
    /\ fired' = e.fired
    /\ matches' = e.matches

\* a call or frame of the engine alone: the App's state is not involved
Becomes(e) ==
    /\ FieldsBecome(e)
    /\ app' = app

CallOf(name, data, progressive, p) ==
    [ name |-> name, data |-> data, progressive |-> progressive, p |-> p,
      was |-> state, before |-> Len(voxels) ]

NoPending == [ valid |-> FALSE, data |-> << >> ]

\* one more call or frame within the explored depth
Step ==
    /\ steps < MaxSteps
    /\ steps' = steps + 1

\* the useState initialisers of App: a full work timer, no session, the Eagle
\* queued; timeLeft counts in units of the mode's total / ProgressScale; the
\* two Due flags say which effects the last render left to run; completions
\* is what buildStats[currentBaseModel] gained since sessionStarted last
\* turned true (counted up to 2)
AppInit ==
    [ timeLeft |-> ProgressScale, isTimerActive |-> FALSE, isWorkMode |-> TRUE,
      sessionStarted |-> FALSE, isCompleting |-> FALSE,
      currentBaseModel |-> "Eagle", nextTargetModel |-> "Eagle",
      completionDue |-> FALSE, progressDue |-> FALSE, completions |-> 0 ]

\* the constructor: empty store, STABLE, no mesh, no state handed to
\* onStateChange yet; its first animate() draws nothing
Init ==
    /\ voxels = << >>
    /\ rebuildTargets = << >>
    /\ rebuildStartTime = 0
    /\ state = STABLE
    /\ isProgressive = FALSE
    /\ manualProgress = 0
    /\ hasMesh = FALSE
    /\ frame = << >>
    /\ counts = << 0, 0 >>
    /\ notified = "NONE"
    /\ fired = FALSE
    /\ matches = << >>
    /\ now = 0
    /\ steps = 0
    /\ call = [ name |-> "new", data |-> << >>, progressive |-> FALSE, p |-> 0,
                was |-> STABLE, before |-> 0 ]
    /\ pending = NoPending
    /\ app = AppInit

LoadInitialModel ==
    \E data \in Models :
        /\ Step
        /\ Becomes(LoadInitialModelOp(Engine, data, now))
        /\ call' = CallOf("loadInitialModel", data, FALSE, 0)
        /\ pending' = NoPending
        /\ UNCHANGED now

Dismantle ==
    \E rnd \in RandomStreams :
        /\ Step
        /\ Becomes(DismantleOp(Engine, rnd))
        /\ call' = CallOf("dismantle", << >>, FALSE, 0)
        /\ pending' = NoPending
        /\ UNCHANGED now

SetProgress ==
    \E p \in ProgressValues :
        /\ Step
        /\ Becomes(SetProgressOp(Engine, p, now))
        /\ call' = CallOf("setProgress", << >>, FALSE, p)
        /\ UNCHANGED << now, pending >>

FinishRebuild ==
    /\ Step
    /\ Becomes(FinishRebuildOp(Engine, now))
    /\ call' = CallOf("finishRebuild", << >>, FALSE, 0)
    /\ UNCHANGED << now, pending >>

Rebuild ==
    \E data \in Models, progressive \in BOOLEAN :
        /\ Step
        /\ Becomes(RebuildOp(Engine, data, progressive, now))
        /\ call' = CallOf("rebuild", data, progressive, 0)
        /\ pending' = [ valid |-> TRUE, data |-> data ]
        /\ UNCHANGED now

\* requestAnimationFrame callback; dt is the wall-clock time since the last
\* call or frame
Animate ==
    \E dt \in 0 .. 1 :
        /\ Step
        /\ now + dt <= MaxNow
        /\ now' = now + dt
        /\ Becomes(AnimateOp(Engine, now + dt))
        /\ call' = CallOf("animate", << >>, FALSE, 0)
        /\ UNCHANGED pending

Next ==
    \/ LoadInitialModel
    \/ Dismantle
    \/ SetProgress
    \/ FinishRebuild
    \/ Rebuild
    \/ Animate

Spec == Init /\ [][Next]_vars

\* ------------------------------------------------------------- vocabulary
IsRubble(i) == rebuildTargets[i].isRubble
Slots == 1 .. Len(voxels)
NonRubble == { i \in Slots : i <= Len(rebuildTargets) /\ ~IsRubble(i) }
Rubble == { i \in Slots : i <= Len(rebuildTargets) /\ IsRubble(i) }

\* (x, y, z, color) of a voxel of the store and of a VoxelData entry
QuadOfVoxel(v) == << v.x, v.y, v.z, v.color >>
QuadOfData(d) == << d.x * Fixed, d.y * Fixed, d.z * Fixed, d.color >>

OnTarget(i) ==
    /\ voxels[i].x = rebuildTargets[i].x
    /\ voxels[i].y = rebuildTargets[i].y
    /\ voxels[i].z = rebuildTargets[i].z

AtRest(i) ==
    /\ voxels[i].vx = 0 /\ voxels[i].vy = 0 /\ voxels[i].vz = 0
    /\ voxels[i].rx = 0 /\ voxels[i].ry = 0 /\ voxels[i].rz = 0

Max(a, b) == IF a >= b THEN a ELSE b

\* C1: after rebuild(T, progressive), any frames and setProgress calls, and
\* then finishRebuild(), the non-rubble voxels carry exactly the entries of T:
\* every (x, y, z, color) occurs as often among them as in T.
C1_FinishedStoreIsTarget ==
    (call.name = "finishRebuild" /\ pending.valid) =>
        \A q \in { QuadOfVoxel(voxels[i]) : i \in NonRubble }
                 \cup { QuadOfData(pending.data[j]) : j \in DOMAIN pending.data } :
            Cardinality({ i \in NonRubble : QuadOfVoxel(voxels[i]) = q })
                = Cardinality({ j \in DOMAIN pending.data : QuadOfData(pending.data[j]) = q })

\* a rebuild onto a shorter, non-empty list was finished: rubble beside the sculpture
C1_Witness ==
    /\ call.name = "finishRebuild"
    /\ pending.valid
    /\ Len(pending.data) >= 1
    /\ Rubble # {}
    /\ call.was = REBUILDING

\* C2: finishRebuild() called in any state leaves the engine STABLE with
\* every non-rubble voxel exactly on its target, velocity and rotation zero.
C2_FinishSnaps ==
    call.name = "finishRebuild" =>
        /\ state = STABLE
        /\ \A i \in NonRubble : OnTarget(i) /\ AtRest(i)

\* finishRebuild() interrupted a dismantle: the voxels still spin-tagged by it
C2_Witness ==
    /\ call.name = "finishRebuild"
    /\ call.was = DISMANTLING
    /\ \E i \in NonRubble : voxels[i].rvx # 0

\* C3: the mapping made by rebuild is one-to-one: no target index is given
\* to two voxels, no slot receives two targets, and the matched slots are
\* exactly the non-rubble ones.
C3_OneToOne ==
    /\ \A i, j \in DOMAIN matches :
           i # j => (matches[i][1] # matches[j][1] /\ matches[i][2] # matches[j][2])
    /\ call.name = "rebuild" =>
           /\ { matches[i][2] : i \in DOMAIN matches } = NonRubble
           /\ \A i \in DOMAIN matches :
                  rebuildTargets[matches[i][2]].delay.num = matches[i][1]

\* two targets of the same colour competed for the voxels of a rebuild
C3_Witness ==
    /\ call.name = "rebuild"
    /\ Len(matches) >= 2
    /\ call.data[1].color = call.data[2].color
    /\ call.before >= 2

\* C4: on a store of S voxels and a target list of T <= S entries, rebuild
\* matches exactly T voxels, every target index 0..T-1 exactly once, and marks
\* exactly S - T voxels as rubble (none when T = S).
C4_MatchedAndRubble ==
    (call.name = "rebuild" /\ Len(call.data) <= call.before) =>
        /\ Len(matches) = Len(call.data)
        /\ { matches[i][1] : i \in DOMAIN matches } = 0 .. (Len(call.data) - 1)
        /\ Cardinality(NonRubble) = Len(call.data)
        /\ Cardinality(Rubble) = call.before - Len(call.data)

\* a rebuild onto a shorter, non-empty list
C4_Witness ==
    /\ call.name = "rebuild"
    /\ Len(call.data) >= 1
    /\ Len(call.data) < call.before
    /\ Rubble # {}

\* C5: rebuild never shrinks the store: it holds max(S, |T|) voxels afterwards,
\* every target is matched, and a longer target list leaves no rubble.
C5_StoreGrows ==
    call.name = "rebuild" =>
        /\ Len(voxels) = Max(call.before, Len(call.data))
        /\ Len(matches) = Len(call.data)
        /\ Len(call.data) > call.before => Rubble = {}

\* a rebuild onto a list longer than a non-empty store
C5_Witness ==
    /\ call.name = "rebuild"
    /\ call.before >= 1
    /\ Len(call.data) > call.before

\* C6: a rebuild onto a longer list appends: every voxel that existed before
\* keeps its slot and its position, and the appended slots take targets.
C6_GrowthAppends ==
    [][ (call'.name = "rebuild" /\ Len(call'.data) > Len(voxels)) =>
            /\ \A i \in 1 .. Len(voxels) :
                   /\ voxels'[i].id = voxels[i].id
                   /\ voxels'[i].x = voxels[i].x
                   /\ voxels'[i].y = voxels[i].y
                   /\ voxels'[i].z = voxels[i].z
            /\ \A i \in (Len(voxels) + 1) .. Len(voxels') : ~rebuildTargets'[i].isRubble ]_vars

\* C7: between operations the store and the RebuildTarget list have the same
\* length.
C7_SameLength == Len(voxels) = Len(rebuildTargets)

\* a grown store rebuilt onto a shorter list
C7_Witness ==
    /\ call.name = "rebuild"
    /\ Len(call.data) < Len(voxels)
    /\ Len(rebuildTargets) >= 2

\* C8: setProgress(p) while STABLE or DISMANTLING changes nothing: not the
\* state, no voxel, no target, and not the stored unlock fraction.
C8_SetProgressGated ==
    [][ (call'.name = "setProgress" /\ state \in { STABLE, DISMANTLING }) =>
            /\ state' = state
            /\ voxels' = voxels
            /\ rebuildTargets' = rebuildTargets
            /\ manualProgress' = manualProgress ]_vars

\* C9: in a progressive REBUILDING, setProgress(p) with p >= 1 leaves the
\* engine exactly as finishRebuild() would have left it.
C9_FullProgressFinishes ==
    [][ (call'.name = "setProgress" /\ call'.p >= ProgressScale
            /\ state = REBUILDING /\ isProgressive) =>
            Engine' = FinishRebuildOp(Engine, now) ]_vars

\* setProgress(1.5) ended a progressive rebuild of a non-empty sculpture
C9_Witness ==
    /\ call.name = "setProgress"
    /\ call.p > ProgressScale
    /\ call.was = REBUILDING
    /\ isProgressive
    /\ state = STABLE
    /\ manualProgress = ProgressScale
    /\ NonRubble # {}

\* the non-rubble slots the unlock test lets move at time t
Unlocked(e, t) ==
    { i \in 1 .. Len(e.voxels) :
        /\ i <= Len(e.rebuildTargets)
        /\ ~e.rebuildTargets[i].isRubble
        /\ IsUnlocked(e, e.rebuildTargets[i], t) }

\* C10: in an autonomous REBUILDING (progressive = false) setProgress(p) has
\* no effect for any p: the state stays REBUILDING, no voxel moves or unlocks.
C10_AutonomousIgnoresProgress ==
    [][ (call'.name = "setProgress" /\ state = REBUILDING /\ ~isProgressive) =>
            /\ state' = REBUILDING
            /\ voxels' = voxels
            /\ Unlocked(Engine', now') = Unlocked(Engine, now) ]_vars

\* C13: in a progressive REBUILDING a frame treats a non-rubble voxel as
\* unlocked exactly when the stored progress >= its delay, whatever the clock
\* reads and however many frames ran: it is interpolated and counted active
\* then, and falls or parks uncounted otherwise.
C13_ProgressAloneUnlocks ==
    [][ (call'.name = "animate" /\ state = REBUILDING /\ isProgressive) =>
            /\ \A i \in NonRubble :
                   IF manualProgress * rebuildTargets[i].delay.den
                          >= rebuildTargets[i].delay.num * ProgressScale
                   THEN voxels'[i] = Lerp(voxels[i], rebuildTargets[i])
                   ELSE voxels'[i] = IF voxels[i].y > HideY THEN Fall(voxels[i])
                                                            ELSE Park(voxels[i])
            /\ hasMesh =>
                   counts'[1] = Cardinality({ i \in NonRubble :
                                    manualProgress * rebuildTargets[i].delay.den
                                        >= rebuildTargets[i].delay.num * ProgressScale }) ]_vars

\* a frame of a progressive rebuild, the clock past the rebuild's start, one
\* voxel unlocked by the stored progress and one still locked
C13_Witness ==
    /\ call.name = "animate"
    /\ call.was = REBUILDING
    /\ state = REBUILDING
    /\ isProgressive
    /\ now > rebuildStartTime
    /\ counts = << 1, 2 >>
    /\ \E i \in NonRubble : voxels[i].vy # 0

PresetValues == { 0, RUBBLE_DELAY * ProgressScale }

\* clock units between two frames: none, or past elapsed > delay * 2 for the
\* delay of a rubble entry
FrameGaps == { 0, 2 * RUBBLE_DELAY + 1 }

InCycle == call.name = "rebuild" \/ steps > 0

CycleStep ==
    /\ InCycle
    /\ steps < MaxCycleSteps
    /\ steps' = steps + 1

CycleLoad ==
    \E data \in { m \in Models : Len(m) = MaxVoxels } :
        /\ call.name = "new"
        /\ Becomes(LoadInitialModelOp(Engine, data, now))
        /\ call' = CallOf("loadInitialModel", data, FALSE, 0)
        /\ pending' = NoPending
        /\ UNCHANGED << now, steps >>

CyclePreset ==
    \E p \in PresetValues :
        /\ call.name = "loadInitialModel"
        /\ Becomes(SetProgressOp(Engine, p, now))
        /\ call' = CallOf("setProgress", << >>, FALSE, p)
        /\ UNCHANGED << now, steps, pending >>

CycleRebuild ==
    \E data \in { m \in Models : Len(m) < Len(voxels) }, progressive \in BOOLEAN :
        /\ call.name = "setProgress"
        /\ ~InCycle
        /\ Becomes(RebuildOp(Engine, data, progressive, now))
        /\ call' = CallOf("rebuild", data, progressive, 0)
        /\ pending' = [ valid |-> TRUE, data |-> data ]
        /\ UNCHANGED << now, steps >>

CycleFrame ==
    \E dt \in FrameGaps :
        /\ CycleStep
        /\ now' = now + dt
        /\ Becomes(AnimateOp(Engine, now + dt))
        /\ call' = CallOf("animate", << >>, FALSE, 0)
        /\ UNCHANGED pending

CycleSetProgress ==
    \E p \in ProgressValues :
        /\ CycleStep
        /\ Becomes(SetProgressOp(Engine, p, now))
        /\ call' = CallOf("setProgress", << >>, FALSE, p)
        /\ UNCHANGED << now, pending >>

CycleDismantle ==
    \E rnd \in RandomStreams :
        /\ CycleStep
        /\ Becomes(DismantleOp(Engine, rnd))
        /\ call' = CallOf("dismantle", << >>, FALSE, 0)
        /\ pending' = NoPending
        /\ UNCHANGED now

CycleFinish ==
    /\ CycleStep
    /\ Becomes(FinishRebuildOp(Engine, now))
    /\ call' = CallOf("finishRebuild", << >>, FALSE, 0)
    /\ UNCHANGED << now, pending >>

CycleNext ==
    \/ CycleLoad
    \/ CyclePreset
    \/ CycleRebuild
    \/ CycleFrame
    \/ CycleSetProgress
    \/ CycleDismantle
    \/ CycleFinish

SpecCycle == Init /\ [][CycleNext]_vars

\* C15: a voxel marked rubble by rebuild stays locked for the whole rebuild
\* cycle: whatever progress is stored or passed to setProgress and whatever
\* time has elapsed, a call or frame that leaves the engine REBUILDING leaves
\* the voxel where it is, its destination below the floor, and a frame draws
\* it at the hidden scale and counts only unlocked non-rubble voxels.
C15_RubbleStaysLocked ==
    [][ (state = REBUILDING /\ state' = REBUILDING /\ call'.name # "rebuild") =>
            \A i \in Rubble :
                /\ i \in Rubble'
                /\ voxels'[i] = voxels[i]
                /\ rebuildTargets'[i].y < FLOOR_Y * Fixed
                /\ call'.name = "animate" =>
                       /\ frame'[i] = "TINY"
                       /\ counts'[1] = Cardinality(Unlocked(Engine', now')) ]_vars

\* a late frame of a progressive rebuild that left rubble, the stored progress
\* as large as the rubble delay and the clock past twice that delay
C15_Witness ==
    /\ call.name = "animate"
    /\ call.was = REBUILDING
    /\ state = REBUILDING
    /\ isProgressive
    /\ Rubble # {}
    /\ NonRubble # {}
    /\ manualProgress >= RUBBLE_DELAY * ProgressScale
    /\ (now - rebuildStartTime) * ClockUnitMs > 2 * RUBBLE_DELAY * 1000

\* C16: from the rebuild that marks a voxel rubble until the next rebuild or
\* loadInitialModel, every frame drawn, in every state, hides that voxel: it
\* is drawn at the hidden scale or lies at or below the floor.
C16_RubbleHiddenInEveryFrame ==
    (hasMesh /\ call.name \in { "animate", "finishRebuild" }) =>
        \A i \in Rubble : frame[i] = "TINY" \/ voxels[i].y <= FLOOR_Y * Fixed

\* C17: of two targets handed to rebuild the lower one never gets the larger
\* delay: for matched entries ta, tb with ta.y < tb.y, delay(ta) <= delay(tb).
C17_DelayMonotoneInY ==
    \A i, j \in NonRubble :
        rebuildTargets[i].y < rebuildTargets[j].y =>
            rebuildTargets[i].delay.num * rebuildTargets[j].delay.den
                <= rebuildTargets[j].delay.num * rebuildTargets[i].delay.den

\* a rebuild onto a list that names the upper voxel first: the sort had to
\* reorder it, and the two entries got different delays
C17_Witness ==
    /\ call.name = "rebuild"
    /\ Len(call.data) = 2
    /\ call.data[1].y > call.data[2].y
    /\ \E i, j \in NonRubble :
           /\ rebuildTargets[i].y < rebuildTargets[j].y
           /\ rebuildTargets[i].delay.num * rebuildTargets[j].delay.den
                  < rebuildTargets[j].delay.num * rebuildTargets[i].delay.den

\* a second engine whose store holds the same colours in the same order and
\* nothing else in common: every voxel at rest at the origin, the engine idle
TwinOf(e) ==
    [ e EXCEPT !.voxels = [ i \in 1 .. Len(e.voxels) |->
                              NewVoxel([ x |-> 0, y |-> 0, z |-> 0,
                                         color |-> e.voxels[i].color ], i) ],
               !.state = STABLE, !.notified = STABLE, !.isProgressive = FALSE,
               !.manualProgress = 0, !.rebuildStartTime = 0 ]

\* C18: the mapping made by rebuild is a function of the store's colours (in
\* slot order) and of the target list: a second engine with the same colours
\* in the same order, given the same list, claims the same slot for every
\* target and records the same coordinates, delays and rubble flags.
C18_RebuildDeterministic ==
    [][ call'.name = "rebuild" =>
            LET twin == RebuildOp(TwinOf(Engine), call'.data, call'.progressive, 0)
            IN  /\ rebuildTargets' = twin.rebuildTargets
                /\ matches' = twin.matches
                /\ \A i \in 1 .. Len(voxels') : voxels'[i].color = twin.voxels[i].color ]_vars

\* a rebuild of a dismantled store: its voxels were in motion, the twin's at rest
C18_Witness ==
    /\ call.name = "rebuild"
    /\ call.was = DISMANTLING
    /\ Len(matches) >= 2
    /\ \E i \in NonRubble : voxels[i].vy # 0 /\ rebuildTargets[i].delay.num > 0

\* C19: loadInitialModel(D), called in any state, leaves the engine STABLE
\* with a store of exactly |D| voxels, voxel i at D[i]'s position with D[i]'s
\* colour and zero velocity and rotation, target i at D[i]'s coordinates, and
\* no rubble.
C19_LoadResets ==
    call.name = "loadInitialModel" =>
        /\ state = STABLE
        /\ Len(voxels) = Len(call.data)
        /\ Len(rebuildTargets) = Len(call.data)
        /\ Rubble = {}
        /\ \A i \in DOMAIN call.data :
               /\ QuadOfVoxel(voxels[i]) = QuadOfData(call.data[i])
               /\ AtRest(i)
               /\ rebuildTargets[i].x = call.data[i].x * Fixed
               /\ rebuildTargets[i].y = call.data[i].y * Fixed
               /\ rebuildTargets[i].z = call.data[i].z * Fixed

\* a model loaded over another one of the same size that was not at rest in
\* its place: dismantled, or mid-rebuild with rubble
C19_Witness ==
    /\ call.name = "loadInitialModel"
    /\ call.was # STABLE
    /\ call.before = Len(call.data)
    /\ Len(call.data) = MaxVoxels

\* C20: onStateChange is invoked with the new state whenever a call changes
\* the lifecycle state and never by a frame, so once a state has been handed
\* over, the state last handed over is the engine's current state.
C20_NotificationsTrackState ==
    [][ /\ state' # state => fired'
        /\ fired' => notified' = state'
        /\ ~fired' => (notified' = notified /\ state' = state)
        /\ call'.name = "animate" => ~fired'
        /\ notified' # "NONE" => notified' = state' ]_vars

\* a frame of a rebuild: the state was handed over by rebuild, not by the frame
C20_Witness ==
    /\ call.name = "animate"
    /\ call.was = REBUILDING
    /\ ~fired
    /\ notified = REBUILDING
    /\ state = REBUILDING
    /\ NonRubble # {}

\* ------------------------------------------------- an unattended rebuild
\* A third specification: the driver loads a model, may dismantle it, calls
\* rebuild(T, false) and makes no further call.  requestAnimationFrame keeps
\* handing frames to animate(), which requests the next one first thing, so
\* frames are weakly fair.  Every frame advances the clock by one unit until
\* MaxNow; from then on elapsed > delay * 2 holds for every matched entry
\* (delay < 1) and a later clock reads the same to the engine.  Frames never
\* stop coming: steps holds the parity of their number here.

\* Math.abs(target - v) > 0.05 : not arrived yet (in 1/Fixed)
Tolerance == 50

AutoLoad ==
    \E data \in Models :
        /\ call.name = "new"
        /\ Becomes(LoadInitialModelOp(Engine, data, now))
        /\ call' = CallOf("loadInitialModel", data, FALSE, 0)
        /\ pending' = NoPending
        /\ UNCHANGED << now, steps >>

AutoDismantle ==
    \E rnd \in RandomStreams :
        /\ call.name = "loadInitialModel"
        /\ Becomes(DismantleOp(Engine, rnd))
        /\ call' = CallOf("dismantle", << >>, FALSE, 0)
        /\ UNCHANGED << now, steps, pending >>

AutoRebuild ==
    \E data \in Models :
        /\ call.name \in { "loadInitialModel", "dismantle" }
        /\ Becomes(RebuildOp(Engine, data, FALSE, now))
        /\ call' = CallOf("rebuild", data, FALSE, 0)
        /\ pending' = [ valid |-> TRUE, data |-> data ]
        /\ UNCHANGED << now, steps >>

AutoFrame ==
    LET later == IF now < MaxNow THEN now + 1 ELSE now
    IN  /\ call.name \in { "rebuild", "animate" }
        /\ now' = later
        /\ Becomes(AnimateOp(Engine, later))
        /\ call' = CallOf("animate", << >>, FALSE, 0)
        /\ steps' = 1 - steps
        /\ UNCHANGED pending

AutoNext ==
    \/ AutoLoad
    \/ AutoDismantle
    \/ AutoRebuild
    \/ AutoFrame

SpecAuto == Init /\ [][AutoNext]_vars /\ WF_vars(AutoFrame)

\* every non-rubble voxel is within the tolerance of its target on every axis
Converged ==
    \A i \in NonRubble :
        /\ Abs(rebuildTargets[i].x - voxels[i].x) <= Tolerance
        /\ Abs(rebuildTargets[i].y - voxels[i].y) <= Tolerance
        /\ Abs(rebuildTargets[i].z - voxels[i].z) <= Tolerance

\* C11: after rebuild(T, false) and no further call, frames eventually take
\* the engine from REBUILDING to STABLE on their own once every non-rubble
\* voxel has converged to within the tolerance of its target.
C11_ConvergedRebuildCompletes ==
    (state = REBUILDING /\ ~isProgressive /\ NonRubble # {} /\ Converged) ~> (state = STABLE)

\* ------------------------------------- the engine listed in AI_AND_JSON.md
\* The VoxelEngine printed in src/AI_AND_JSON.md: the same fields, a tick
\* (updatePhysics) that completes an autonomous rebuild by itself, a rebuild
\* that resets the progress and sinks every voxel below the floor.  Its
\* operations carry the prefix Doc; the fourth specification SpecDoc runs them.

\* v.y = CONFIG.FLOOR_Y - 15 : where rebuild puts every voxel, and the height
\* a locked voxel is held at
DocSunkY == (FLOOR_Y - 15) * Fixed
\* y of a rubble entry: CONFIG.FLOOR_Y - 20
DocRubbleY == (FLOOR_Y - 20) * Fixed
\* v.y < CONFIG.FLOOR_Y - 2 : drawn at scale 0.0001
DocHideY == (FLOOR_Y - 2) * Fixed
\* const lerpSpeed = this.isProgressive ? 0.4 : 0.15, the progressive one
ScrubLerpPct == 40

\* THREE.Color(hex).g and .b as integers 0..255
GreenOf(hex) == (hex \div 256) % 256
BlueOf(hex) == hex % 256

\* getColorDist squared, in units of 1/255^2 (the square root is monotone,
\* every comparison of two distances is a comparison of their squares)
DocColorDistSq(hex1, hex2) ==
    (RedOf(hex1) - RedOf(hex2)) * (RedOf(hex1) - RedOf(hex2))
    + (GreenOf(hex1) - GreenOf(hex2)) * (GreenOf(hex1) - GreenOf(hex2))
    + (BlueOf(hex1) - BlueOf(hex2)) * (BlueOf(hex1) - BlueOf(hex2))

\* d < 0.01 on the squares: d^2 < 0.0001 with d^2 in units of 1/255^2
DocNearColor(dSq) == dSq * 10000 < 255 * 255

\* draw(): the scale depends on the height alone, in every state
DocDraw(e) ==
    IF ~e.hasMesh THEN e
    ELSE [ e EXCEPT !.frame = [ i \in 1 .. Len(e.voxels) |->
                                  IF e.voxels[i].y < DocHideY THEN "TINY" ELSE "FULL" ] ]

\* createVoxels(data)
DocCreateVoxels(e, data) ==
    DocDraw([ e EXCEPT !.voxels = [ i \in 1 .. Len(data) |-> NewVoxel(data[i], i) ],
                       !.hasMesh = TRUE ])

\* loadInitialModel(data): the target list is left as it was
DocLoadInitialModelOp(e, data) ==
    [ DocCreateVoxels(e, data) EXCEPT !.counts = << Len(data), Len(data) >>,
                                      !.state = STABLE, !.notified = STABLE, !.fired = TRUE ]

\* dismantle(): rnd[1], rnd[2] are the Math.random() results for vx and vz
DocDismantleOp(e, rnd) ==
    [ e EXCEPT !.state = DISMANTLING, !.notified = DISMANTLING, !.fired = TRUE,
               !.voxels = [ i \in 1 .. Len(e.voxels) |->
                              [ e.voxels[i] EXCEPT !.vy = -1500,
                                                   !.vx = Scale(rnd[1] - 500, 500, 1000),
                                                   !.vz = Scale(rnd[2] - 500, 500, 1000) ] ] ]

\* setProgress(p): stores p, nothing else
DocSetProgressOp(e, p) == [ e EXCEPT !.manualProgress = p, !.fired = FALSE ]

\* finishRebuild(): rubble is left where it is
DocFinishRebuildOp(e) ==
    DocDraw([ e EXCEPT !.manualProgress = ProgressScale,
                       !.state = STABLE, !.notified = STABLE, !.fired = TRUE,
                       !.voxels = [ i \in 1 .. Len(e.voxels) |->
                                      IF i <= Len(e.rebuildTargets) /\ ~e.rebuildTargets[i].isRubble
                                      THEN FinishVoxel(e.voxels[i], e.rebuildTargets[i])
                                      ELSE e.voxels[i] ] ])

RECURSIVE DocScanBest(_, _, _, _, _, _)
\* the inner for-loop of rebuild on the squared Euclidean distance; bestDist
\* starts above every distance, 0 is bestIdx = -1
DocScanBest(colors, taken, tc, i, bestDist, bestIdx) ==
    IF i > Len(colors) THEN bestIdx
    ELSE IF i \in taken THEN DocScanBest(colors, taken, tc, i + 1, bestDist, bestIdx)
    ELSE LET d == DocColorDistSq(colors[i], tc)
         IN  IF d < bestDist
             THEN IF DocNearColor(d) THEN i
                  ELSE DocScanBest(colors, taken, tc, i + 1, d, i)
             ELSE DocScanBest(colors, taken, tc, i + 1, bestDist, bestIdx)

RECURSIVE DocAssignFrom(_, _, _)
DocAssignFrom(sorted, k, acc) ==
    IF k > Len(sorted) THEN acc
    ELSE LET bestIdx == DocScanBest(acc.colors, acc.taken, sorted[k].color, 1, BEST_DIST_INIT, 0)
         IN  IF bestIdx = 0 THEN DocAssignFrom(sorted, k + 1, acc)
             ELSE DocAssignFrom(sorted, k + 1,
                    [ taken |-> Take(acc.taken, bestIdx),
                      mappings |-> [ acc.mappings EXCEPT ![bestIdx] = k ],
                      colors |-> Recolor(acc.colors, bestIdx, sorted[k].color),
                      matches |-> Append(acc.matches, << k - 1, bestIdx >>) ])

DocAssign(colors, sorted) ==
    DocAssignFrom(sorted, 1,
                  [ taken |-> {},
                    mappings |-> [ i \in 1 .. Len(colors) |-> 0 ],
                    colors |-> colors,
                    matches |-> << >> ])

\* mappings[i] after the rubble fill
DocMappingOf(a, sorted, i) ==
    IF a.mappings[i] = 0
    THEN Target(0, DocRubbleY, 0, RUBBLE_DELAY, 1, TRUE)
    ELSE LET k == a.mappings[i]
         IN  Target(sorted[k].x * Fixed, sorted[k].y * Fixed, sorted[k].z * Fixed,
                    k - 1, Len(sorted), FALSE)

\* rebuild(targetModel, progressive)
DocRebuildOp(e, targetModel, progressive, at) ==
    LET e1 == [ e EXCEPT !.isProgressive = progressive, !.manualProgress = 0 ]
        e2 == IF Len(targetModel) > Len(e1.voxels)
              THEN [ DocCreateVoxels(e1, targetModel) EXCEPT
                       !.counts = << Len(targetModel), Len(targetModel) >> ]
              ELSE e1
        sorted == SortByY(targetModel)
        a == DocAssign([ i \in 1 .. Len(e2.voxels) |-> e2.voxels[i].color ], sorted)
    IN  [ e2 EXCEPT !.rebuildTargets = [ i \in 1 .. Len(e2.voxels) |-> DocMappingOf(a, sorted, i) ],
                    !.rebuildStartTime = at,
                    !.state = REBUILDING, !.notified = REBUILDING, !.fired = TRUE,
                    !.matches = a.matches,
                    !.voxels = [ i \in 1 .. Len(e2.voxels) |->
                                   [ e2.voxels[i] EXCEPT !.color = a.colors[i],
                                                         !.y = DocSunkY,
                                                         !.vx = 0, !.vy = 0, !.vz = 0,
                                                         !.rx = 0, !.ry = 0, !.rz = 0 ] ] ]

\* const targetY = isAboveThreshold ? t.y : (CONFIG.FLOOR_Y - 15)
DocTargetY(e, t, at) == IF IsUnlocked(e, t, at) THEN t.y ELSE DocSunkY

\* const lerpSpeed = this.isProgressive ? 0.4 : 0.15, in percent
DocLerpPct(e) == IF e.isProgressive THEN ScrubLerpPct ELSE LERP_PCT

\* updatePhysics, REBUILDING: the voxel of slot i after the tick
DocRebuildStep(e, i, at) ==
    LET v == e.voxels[i]
    IN  IF i > Len(e.rebuildTargets) THEN v
        ELSE LET t == e.rebuildTargets[i]
                 pct == DocLerpPct(e)
             IN  IF t.isRubble THEN [ v EXCEPT !.y = DocRubbleY ]
                 ELSE [ v EXCEPT !.x = v.x + Scale(t.x - v.x, pct, 100),
                                 !.y = v.y + Scale(DocTargetY(e, t, at) - v.y, pct, 100),
                                 !.z = v.z + Scale(t.z - v.z, pct, 100),
                                 !.rx = v.rx + Scale(0 - v.rx, pct, 100),
                                 !.ry = v.ry + Scale(0 - v.ry, pct, 100),
                                 !.rz = v.rz + Scale(0 - v.rz, pct, 100) ]

\* updatePhysics, REBUILDING: slot i clears allDone
DocNotDone(e, i, at) ==
    /\ i <= Len(e.rebuildTargets)
    /\ ~e.rebuildTargets[i].isRubble
    /\ Abs(DocTargetY(e, e.rebuildTargets[i], at) - DocRebuildStep(e, i, at).y) > Tolerance

\* updatePhysics()
DocUpdatePhysics(e, at) ==
    IF e.state = DISMANTLING
    THEN [ e EXCEPT !.voxels = [ i \in 1 .. Len(e.voxels) |->
                                   [ e.voxels[i] EXCEPT !.y = e.voxels[i].y + e.voxels[i].vy ] ] ]
    ELSE IF e.state = REBUILDING
    THEN LET moved == [ e EXCEPT !.voxels = [ i \in 1 .. Len(e.voxels) |->
                                                DocRebuildStep(e, i, at) ] ]
             allDone == \A i \in 1 .. Len(e.voxels) : ~DocNotDone(e, i, at)
         IN  IF allDone /\ ~e.isProgressive
             THEN [ moved EXCEPT !.state = STABLE, !.notified = STABLE, !.fired = TRUE ]
             ELSE moved
    ELSE e

\* animate(): updatePhysics(), then draw()
DocAnimateOp(e, at) == DocDraw(DocUpdatePhysics([ e EXCEPT !.fired = FALSE ], at))

DocLoad ==
    \E data \in Models :
        /\ Step
        /\ Becomes(DocLoadInitialModelOp(Engine, data))
        /\ call' = CallOf("loadInitialModel", data, FALSE, 0)
        /\ pending' = NoPending
        /\ UNCHANGED now

DocDismantle ==
    \E rnd \in RandomStreams :
        /\ Step
        /\ Becomes(DocDismantleOp(Engine, rnd))
        /\ call' = CallOf("dismantle", << >>, FALSE, 0)
        /\ pending' = NoPending
        /\ UNCHANGED now

DocSetProgress ==
    \E p \in ProgressValues :
        /\ Step
        /\ Becomes(DocSetProgressOp(Engine, p))
        /\ call' = CallOf("setProgress", << >>, FALSE, p)
        /\ UNCHANGED << now, pending >>

DocFinish ==
    /\ Step
    /\ Becomes(DocFinishRebuildOp(Engine))
    /\ call' = CallOf("finishRebuild", << >>, FALSE, 0)
    /\ UNCHANGED << now, pending >>

DocRebuild ==
    \E data \in Models, progressive \in BOOLEAN :
        /\ Step
        /\ Becomes(DocRebuildOp(Engine, data, progressive, now))
        /\ call' = CallOf("rebuild", data, progressive, 0)
        /\ pending' = [ valid |-> TRUE, data |-> data ]
        /\ UNCHANGED now

DocFrame ==
    \E dt \in 0 .. 1 :
        /\ Step
        /\ now + dt <= MaxNow
        /\ now' = now + dt
        /\ Becomes(DocAnimateOp(Engine, now + dt))
        /\ call' = CallOf("animate", << >>, FALSE, 0)
        /\ UNCHANGED pending

DocNext ==
    \/ DocLoad
    \/ DocDismantle
    \/ DocSetProgress
    \/ DocFinish
    \/ DocRebuild
    \/ DocFrame

SpecDoc == Init /\ [][DocNext]_vars

\* C12: in the engine whose tick completes a rebuild by itself, a tick takes
\* the engine from REBUILDING to STABLE only if the rebuild is not progressive
\* and every non-rubble voxel is within the tolerance of its target on x, y
\* and z; never while a non-rubble voxel is still held below the floor.
C12_TickCompletesOnlyConverged ==
    [][ (call'.name = "animate" /\ state = REBUILDING /\ state' = STABLE) =>
            /\ ~isProgressive
            /\ \A i \in NonRubble :
                   /\ Abs(rebuildTargets[i].x - voxels'[i].x) <= Tolerance
                   /\ Abs(rebuildTargets[i].y - voxels'[i].y) <= Tolerance
                   /\ Abs(rebuildTargets[i].z - voxels'[i].z) <= Tolerance ]_vars

\* C21: a frame of a STABLE engine leaves the state, every voxel (position,
\* velocity, rotation, colour) and every RebuildTarget as they were.
C21_StableFramesChangeNothing ==
    [][ (call'.name = "animate" /\ state = STABLE) =>
            /\ state' = STABLE
            /\ voxels' = voxels
            /\ rebuildTargets' = rebuildTargets ]_vars

\* a late frame of a sculpture that a finished rebuild left STABLE, rubble
\* parked beside it
C21_Witness ==
    /\ call.name = "animate"
    /\ call.was = STABLE
    /\ state = STABLE
    /\ Len(voxels) >= 2
    /\ Rubble # {}
    /\ now > rebuildStartTime

\* C22: dismantle() gives every voxel a downward vertical velocity, and after
\* the frames that follow it every voxel is strictly lower than it was when
\* dismantle() was called; stated for the first frame, which starts from the
\* positions dismantle() found.
C22_DismantledVoxelsFall ==
    [][ (call.name = "dismantle" /\ call'.name = "animate") =>
            \A i \in 1 .. Len(voxels) :
                /\ voxels[i].vy < 0
                /\ voxels'[i].y < voxels[i].y ]_vars

\* C23: in every frame drawn, in every state, a voxel below the hiding
\* threshold (CONFIG.FLOOR_Y - 5) is written at the hidden scale.
C23_BelowFloorIsCulled ==
    (hasMesh /\ call.name \in { "animate", "finishRebuild" }) =>
        \A i \in Slots : voxels[i].y < HideY => frame[i] = "TINY"

\* C24: every draw reports (active, total) with total the store size and
\* active the number of voxels that draw wrote at full scale, during
\* REBUILDING only the unlocked ones; in STABLE, DISMANTLING and REBUILDING
\* alike, and 0 <= active <= total.
C24_CountIsFullScale ==
    (hasMesh /\ call.name \in { "animate", "finishRebuild" }) =>
        /\ counts[2] = Len(voxels)
        /\ counts[1] = Cardinality({ i \in Slots :
                            /\ frame[i] = "FULL"
                            /\ state = REBUILDING => i \in Unlocked(Engine, now) })
        /\ 0 <= counts[1]
        /\ counts[1] <= counts[2]


\* C25: rebuild called with an empty target list is a no-op: the lifecycle
\* state, the voxel store and the RebuildTarget list are after the call what
\* they were before it.
C25_EmptyRebuildIsNoOp ==
    [][ (call'.name = "rebuild" /\ call'.data = << >>) =>
            /\ state' = state
            /\ voxels' = voxels
            /\ rebuildTargets' = rebuildTargets ]_vars


\* ---------------------------------------------------------------------------
\* A model switch and back: a full model is loaded, rebuilt into a smaller one
\* and finished (the surplus voxels end on their rubble targets, far below
\* the floor), then rebuilt into a model that claims them again.
\* ---------------------------------------------------------------------------

SwitchLoad ==
    \E data \in { m \in Models : Len(m) = MaxVoxels } :
        /\ call.name = "new"
        /\ Becomes(LoadInitialModelOp(Engine, data, now))
        /\ call' = CallOf("loadInitialModel", data, FALSE, 0)
        /\ pending' = NoPending
        /\ UNCHANGED << now, steps >>

SwitchShrink ==
    \E data \in { m \in Models : Len(m) < Len(voxels) }, progressive \in BOOLEAN :
        /\ call.name = "loadInitialModel"
        /\ Becomes(RebuildOp(Engine, data, progressive, now))
        /\ call' = CallOf("rebuild", data, progressive, 0)
        /\ pending' = [ valid |-> TRUE, data |-> data ]
        /\ UNCHANGED << now, steps >>

SwitchFinish ==
    /\ call.name = "rebuild"
    /\ steps = 0
    /\ steps' = 1
    /\ Becomes(FinishRebuildOp(Engine, now))
    /\ call' = CallOf("finishRebuild", << >>, FALSE, 0)
    /\ UNCHANGED << now, pending >>

SwitchBack ==
    \E data \in { m \in Models : Len(m) > 0 }, progressive \in BOOLEAN :
        /\ call.name = "finishRebuild"
        /\ steps = 1
        /\ Becomes(RebuildOp(Engine, data, progressive, now))
        /\ call' = CallOf("rebuild", data, progressive, 0)
        /\ pending' = [ valid |-> TRUE, data |-> data ]
        /\ UNCHANGED << now, steps >>

SwitchStep ==
    /\ steps >= 1
    /\ call.name # "finishRebuild"
    /\ steps <= MaxCycleSteps
    /\ steps' = steps + 1

SwitchFrame ==
    \E dt \in 0 .. 1 :
        /\ SwitchStep
        /\ now + dt <= MaxNow
        /\ now' = now + dt
        /\ Becomes(AnimateOp(Engine, now + dt))
        /\ call' = CallOf("animate", << >>, FALSE, 0)
        /\ UNCHANGED pending

SwitchSetProgress ==
    \E p \in ProgressValues :
        /\ SwitchStep
        /\ Becomes(SetProgressOp(Engine, p, now))
        /\ call' = CallOf("setProgress", << >>, FALSE, p)
        /\ UNCHANGED << now, pending >>

SwitchNext ==
    \/ SwitchLoad
    \/ SwitchShrink
    \/ SwitchFinish
    \/ SwitchBack
    \/ SwitchFrame
    \/ SwitchSetProgress

SpecSwitch == Init /\ [][SwitchNext]_vars

\* C30: in a REBUILDING frame a voxel whose target is matched and not yet
\* unlocked gets exactly the DISMANTLING update (gravity into velocity,
\* velocity into position, angular velocity into rotation, horizontal drag),
\* whatever its height.
C30_LockedVoxelsFreeFall ==
    [][ (call'.name = "animate" /\ state = REBUILDING) =>
            \A i \in NonRubble :
                ~IsUnlocked(Engine, rebuildTargets[i], now') =>
                    voxels'[i] = Fall(voxels[i]) ]_vars


\* ---------------------------------------------------------------------------
\* Colour matching over a palette whose colours differ in the green and blue
\* channels as well: a model is loaded and rebuilt into another.
\* ---------------------------------------------------------------------------

\* blue, green and red voxels
PalettePool ==
    { [x |-> 0, y |-> 1, z |-> 0, color |-> 255],
      [x |-> 0, y |-> 0, z |-> 0, color |-> 65280],
      [x |-> 1, y |-> 0, z |-> 1, color |-> 16711680] }

PaletteModels == SeqsUpTo(PalettePool, MaxVoxels) \ { << >> }

PaletteLoad ==
    \E data \in PaletteModels :
        /\ call.name = "new"
        /\ Becomes(LoadInitialModelOp(Engine, data, now))
        /\ call' = CallOf("loadInitialModel", data, FALSE, 0)
        /\ pending' = NoPending
        /\ UNCHANGED << now, steps >>

PaletteRebuild ==
    \E data \in PaletteModels, progressive \in BOOLEAN :
        /\ call.name = "loadInitialModel"
        /\ Becomes(RebuildOp(Engine, data, progressive, now))
        /\ call' = CallOf("rebuild", data, progressive, 0)
        /\ pending' = [ valid |-> TRUE, data |-> data ]
        /\ UNCHANGED << now, steps >>

PaletteNext ==
    \/ PaletteLoad
    \/ PaletteRebuild

SpecPalette == Init /\ [][PaletteNext]_vars

\* C29: for each target, taken in sorted order, the voxel that rebuild claims
\* is the nearest in colour (Euclidean distance in RGB) among the voxels not
\* claimed before it, the lowest index among equally near ones; or it is the
\* first voxel of the scan whose distance is below the epsilon.
C29_ClaimsNearestColour ==
    [][ call'.name = "rebuild" =>
            LET data == call'.data
                sorted == SortByY(data)
                colors == IF Len(data) > Len(voxels)
                          THEN [ i \in 1 .. Len(data) |-> data[i].color ]
                          ELSE [ i \in 1 .. Len(voxels) |-> voxels[i].color ]
            IN  \A k \in 1 .. Len(matches') :
                    LET slot == matches'[k][2]
                        tc == sorted[matches'[k][1] + 1].color
                        free == (1 .. Len(colors)) \ { matches'[j][2] : j \in 1 .. (k - 1) }
                        d(i) == DocColorDistSq(colors[i], tc)
                    IN  /\ slot \in free
                        /\ \/ \A i \in free : /\ d(slot) <= d(i)
                                              /\ i < slot => d(slot) < d(i)
                           \/ /\ DocNearColor(d(slot))
                              /\ \A i \in free : i < slot => ~DocNearColor(d(i)) ]_vars


\* ---------------------------------------------------------------------------
\* The App's normalizer (src/unnamed/part_005): a custom model is normalized
\* and handed to rebuild.
\* ---------------------------------------------------------------------------

\* voxels of a custom model: integer coordinates, not centred, not grounded
RawPool == [ x : -1 .. 2, y : -1 .. 1, z : { 0, 3 }, color : { 255 } ]

RawModels == SeqsUpTo(RawPool, MaxVoxels)

\* Math.round of n2 / 2: halves round toward +Infinity
MathRoundHalves(n2) == (n2 + 1) \div 2

\* a normalizer that centres the height as it centres x and z
normalizeVoxelsCentredY(data) ==
    IF Len(data) = 0 THEN data
    ELSE LET idx == 1 .. Len(data)
             minX == CHOOSE m \in { data[i].x : i \in idx } : \A i \in idx : m <= data[i].x
             maxX == CHOOSE m \in { data[i].x : i \in idx } : \A i \in idx : m >= data[i].x
             minY == CHOOSE m \in { data[i].y : i \in idx } : \A i \in idx : m <= data[i].y
             maxY == CHOOSE m \in { data[i].y : i \in idx } : \A i \in idx : m >= data[i].y
             minZ == CHOOSE m \in { data[i].z : i \in idx } : \A i \in idx : m <= data[i].z
             maxZ == CHOOSE m \in { data[i].z : i \in idx } : \A i \in idx : m >= data[i].z
         IN  [ i \in idx |->
                 [ data[i] EXCEPT !.x = MathRoundHalves(2 * data[i].x - (minX + maxX)),
                                  !.y = MathRoundHalves(2 * data[i].y - (minY + maxY)),
                                  !.z = MathRoundHalves(2 * data[i].z - (minZ + maxZ)) ] ]
\* a normalizer that truncates toward zero where the source rounds
normalizeVoxelsTruncating(data) ==
    IF Len(data) = 0 THEN data
    ELSE LET idx == 1 .. Len(data)
             minX == CHOOSE m \in { data[i].x : i \in idx } : \A i \in idx : m <= data[i].x
             maxX == CHOOSE m \in { data[i].x : i \in idx } : \A i \in idx : m >= data[i].x
             minY == CHOOSE m \in { data[i].y : i \in idx } : \A i \in idx : m <= data[i].y
             minZ == CHOOSE m \in { data[i].z : i \in idx } : \A i \in idx : m <= data[i].z
             maxZ == CHOOSE m \in { data[i].z : i \in idx } : \A i \in idx : m >= data[i].z
         IN  [ i \in idx |->
                 [ data[i] EXCEPT !.x = TDiv(2 * data[i].x - (minX + maxX), 2),
                                  !.y = TDiv(2 * (data[i].y - minY), 2),
                                  !.z = TDiv(2 * data[i].z - (minZ + maxZ), 2) ] ]
\* normalizeVoxels(voxels): offsets are -(min + max) / 2 for x and z and -minY
\* for y; every coordinate is rounded after the offset is added
normalizeVoxels(data) ==
    IF Len(data) = 0 THEN data
    ELSE LET idx == 1 .. Len(data)
             minX == CHOOSE m \in { data[i].x : i \in idx } : \A i \in idx : m <= data[i].x
             maxX == CHOOSE m \in { data[i].x : i \in idx } : \A i \in idx : m >= data[i].x
             minY == CHOOSE m \in { data[i].y : i \in idx } : \A i \in idx : m <= data[i].y
             minZ == CHOOSE m \in { data[i].z : i \in idx } : \A i \in idx : m <= data[i].z
             maxZ == CHOOSE m \in { data[i].z : i \in idx } : \A i \in idx : m >= data[i].z
         IN  [ i \in idx |->
                 [ data[i] EXCEPT !.x = MathRoundHalves(2 * data[i].x - (minX + maxX)),
                                  !.y = MathRoundHalves(2 * (data[i].y - minY)),
                                  !.z = MathRoundHalves(2 * data[i].z - (minZ + maxZ)) ] ]

\* onSelectCustomRebuild: rebuild(normalizeVoxels(m.data))
CustomRebuild ==
    \E raw \in RawModels :
        /\ call.name = "new"
        /\ Becomes(RebuildOp(Engine, normalizeVoxels(raw), FALSE, now))
        /\ call' = CallOf("onSelectCustomRebuild", raw, FALSE, 0)
        /\ pending' = [ valid |-> TRUE, data |-> normalizeVoxels(raw) ]
        /\ UNCHANGED << now, steps >>

SpecNormalize == Init /\ [][CustomRebuild]_vars

\* C26: normalizeVoxels returns a list as long as its input; for a non-empty
\* list of integer-coordinate voxels the lowest y of the result is exactly 0
\* and the x and z extents are centred on 0 within integer rounding
\* (|min.x + max.x| <= 1, |min.z + max.z| <= 1); the empty list is returned
\* empty.
C26_NormalizedBox ==
    call.name = "onSelectCustomRebuild" =>
        LET out == pending.data
            idx == 1 .. Len(out)
        IN  /\ Len(out) = Len(call.data)
            /\ Len(call.data) = 0 => out = << >>
            /\ Len(call.data) > 0 =>
                /\ \E i \in idx : out[i].y = 0
                /\ \A i \in idx : out[i].y >= 0
                /\ \A i, j \in idx :
                    (/\ \A k \in idx : out[i].x <= out[k].x /\ out[k].x <= out[j].x) =>
                        Abs(out[i].x + out[j].x) <= 1
                /\ \A i, j \in idx :
                    (/\ \A k \in idx : out[i].z <= out[k].z /\ out[k].z <= out[j].z) =>
                        Abs(out[i].z + out[j].z) <= 1

\* an off-centre model three wide in x and z, standing below the ground
C26_Witness ==
    /\ call.name = "onSelectCustomRebuild"
    /\ Len(call.data) = 2
    /\ \E i, j \in 1 .. 2 :
        /\ call.data[i].x = -1 /\ call.data[j].x = 2
        /\ call.data[i].z # call.data[j].z
        /\ call.data[i].y = -1 /\ call.data[j].y = 1
    /\ \E i \in 1 .. 2 : pending.data[i].x = 2
    /\ matches # << >>


\* ---------------------------------------------------------------------------
\* The App component of src/AI_AND_JSON.md driving the engine.  One action
\* per event handler, timer callback and effect.  React runs the effects a
\* render left due before it handles the next event: a handler is enabled
\* only when no effect is due.  Time is counted in units of the current
\* mode's total / ProgressScale, so that manualProgress (the useMemo of
\* l.441-444) is ProgressScale - timeLeft in units of 1 / ProgressScale; one
\* timer tick and one keyboard scrub frame take one unit.
\* ---------------------------------------------------------------------------

\* Generators[name](), normalized
Preset(name) ==
    IF name = "Eagle"
    THEN << [x |-> 0, y |-> 1, z |-> 0, color |-> 255] >>
    ELSE << [x |-> 1, y |-> 0, z |-> 1, color |-> 16711680],
            [x |-> 0, y |-> 1, z |-> 0, color |-> 255] >>

\* the state a1 after the next render: an effect is due when one of its
\* dependencies changed
Rendered(a1) ==
    LET moved == a1.timeLeft # app.timeLeft \/ a1.sessionStarted # app.sessionStarted
    IN  [ a1 EXCEPT !.completionDue = @ \/ moved \/ a1.currentBaseModel # app.currentBaseModel,
                    !.progressDue = @ \/ moved,
                    !.completions = IF a1.sessionStarted /\ ~app.sessionStarted THEN 0 ELSE @ ]

EffectsDone == call.name # "new" /\ ~app.completionDue /\ ~app.progressDue

\* the mount effect: new VoxelEngine(...), loadInitialModel(nextTargetModel.data)
AppMount ==
    /\ call.name = "new"
    /\ FieldsBecome(LoadInitialModelOp(Engine, Preset(app.nextTargetModel), now))
    /\ call' = CallOf("mount", Preset(app.nextTargetModel), FALSE, 0)
    /\ pending' = NoPending
    /\ UNCHANGED << now, steps, app >>

\* the setInterval callback of the timer effect
TimerTick ==
    /\ EffectsDone
    /\ app.isTimerActive
    /\ app' = Rendered([ app EXCEPT !.timeLeft = Max(0, app.timeLeft - 1) ])
    /\ call' = CallOf("timerTick", << >>, FALSE, 0)
    /\ UNCHANGED << voxels, rebuildTargets, rebuildStartTime, state, isProgressive,
                    manualProgress, hasMesh, frame, counts, notified, fired, matches,
                    now, steps, pending >>

\* the completion effect without setSessionStarted(false)
CompletionEffectKeepsSession ==
    /\ call.name # "new"
    /\ app.completionDue
    /\ IF app.timeLeft <= 0 /\ app.sessionStarted /\ ~app.isCompleting
       THEN /\ app' = Rendered([ app EXCEPT !.completionDue = FALSE, !.isCompleting = TRUE,
                                            !.isTimerActive = FALSE,
                                            !.completions = IF @ >= 2 THEN @ ELSE @ + 1 ])
            /\ FieldsBecome(FinishRebuildOp(Engine, now))
            /\ call' = CallOf("finishRebuild", << >>, FALSE, 0)
       ELSE /\ app' = [ app EXCEPT !.completionDue = FALSE ]
            /\ FieldsBecome(Engine)
            /\ call' = CallOf("completionEffect", << >>, FALSE, 0)
    /\ UNCHANGED << now, steps, pending >>

\* the completion effect; finishRebuild() and the buildStats increment stand
\* in the same branch
CompletionEffect ==
    /\ call.name # "new"
    /\ app.completionDue
    /\ IF app.timeLeft <= 0 /\ app.sessionStarted /\ ~app.isCompleting
       THEN /\ app' = Rendered([ app EXCEPT !.completionDue = FALSE, !.isCompleting = TRUE,
                                            !.isTimerActive = FALSE,
                                            !.sessionStarted = FALSE,
                                            !.completions = IF @ >= 2 THEN @ ELSE @ + 1 ])
            /\ FieldsBecome(FinishRebuildOp(Engine, now))
            /\ call' = CallOf("finishRebuild", << >>, FALSE, 0)
       ELSE /\ app' = [ app EXCEPT !.completionDue = FALSE ]
            /\ FieldsBecome(Engine)
            /\ call' = CallOf("completionEffect", << >>, FALSE, 0)
    /\ UNCHANGED << now, steps, pending >>

\* setTimeout(() => { isCompleting.current = false }, 400)
CompletingTimeout ==
    /\ EffectsDone
    /\ app.isCompleting
    /\ app' = [ app EXCEPT !.isCompleting = FALSE ]
    /\ call' = CallOf("completingTimeout", << >>, FALSE, 0)
    /\ UNCHANGED << voxels, rebuildTargets, rebuildStartTime, state, isProgressive,
                    manualProgress, hasMesh, frame, counts, notified, fired, matches,
                    now, steps, pending >>

\* the setProgress effect; it is declared after the completion effect
ProgressEffect ==
    /\ call.name # "new"
    /\ app.progressDue
    /\ ~app.completionDue
    /\ app' = [ app EXCEPT !.progressDue = FALSE ]
    /\ FieldsBecome(IF app.sessionStarted
                    THEN SetProgressOp(Engine, ProgressScale - app.timeLeft, now)
                    ELSE Engine)
    /\ call' = CallOf("progressEffect", << >>, FALSE, ProgressScale - app.timeLeft)
    /\ UNCHANGED << now, steps, pending >>

\* handleStartPomodoro, reached from the primary button while no session is
\* started or the timer is at 0
HandleStartPomodoro ==
    \E rnd \in RandomStreams, nextKey \in { "Eagle", "Cat" } \ { app.currentBaseModel } :
        LET ended == app.timeLeft <= 0
            nextMode == ~app.isWorkMode
            target == app.nextTargetModel
            a1 == IF ended
                  THEN [ app EXCEPT !.isWorkMode = nextMode, !.timeLeft = ProgressScale,
                                    !.nextTargetModel = IF nextMode THEN nextKey ELSE @ ]
                  ELSE app
        IN  /\ EffectsDone
            /\ ~app.sessionStarted \/ ended
            /\ ~app.isCompleting
            /\ app' = Rendered([ a1 EXCEPT !.sessionStarted = TRUE, !.isTimerActive = TRUE,
                                           !.currentBaseModel = target ])
            /\ FieldsBecome(SetProgressOp(RebuildOp(DismantleOp(Engine, rnd),
                                                    Preset(target), TRUE, now), 0, now))
            /\ call' = CallOf("handleStartPomodoro", Preset(target), TRUE, 0)
            /\ pending' = [ valid |-> TRUE, data |-> Preset(target) ]
            /\ UNCHANGED << now, steps >>

\* onSetManualProgress(p): the progress slider
OnSetManualProgress ==
    \E p \in 0 .. ProgressScale, rnd \in RandomStreams :
        LET starts == ~app.sessionStarted /\ ~app.isCompleting
            a1 == IF starts
                  THEN [ app EXCEPT !.sessionStarted = TRUE, !.isTimerActive = FALSE ]
                  ELSE app
        IN  /\ EffectsDone
            /\ app' = Rendered([ a1 EXCEPT !.timeLeft = ProgressScale - p ])
            /\ FieldsBecome(IF starts
                            THEN RebuildOp(DismantleOp(Engine, rnd),
                                           Preset(app.nextTargetModel), TRUE, now)
                            ELSE Engine)
            /\ call' = CallOf("onSetManualProgress", << >>, FALSE, p)
            /\ pending' = IF starts
                          THEN [ valid |-> TRUE, data |-> Preset(app.nextTargetModel) ]
                          ELSE pending
            /\ UNCHANGED << now, steps >>

\* updateScrub with no key held (scrubbingDirection = 0): the callback only
\* requests the next animation frame; steps is the parity of rafId
ScrubIdle ==
    /\ EffectsDone
    /\ steps' = 1 - steps
    /\ call' = CallOf("updateScrub", << >>, FALSE, 0)
    /\ UNCHANGED << voxels, rebuildTargets, rebuildStartTime, state, isProgressive,
                    manualProgress, hasMesh, frame, counts, notified, fired, matches,
                    now, pending, app >>

\* updateScrub with the k / l key held (dir = -1 / 1)
UpdateScrub ==
    \E dir \in { -1, 1 }, rnd \in RandomStreams :
        LET next == IF app.timeLeft - dir > ProgressScale THEN ProgressScale
                    ELSE Max(0, app.timeLeft - dir)
            starts == ~app.sessionStarted /\ next < ProgressScale
            a1 == IF starts
                  THEN [ app EXCEPT !.sessionStarted = TRUE, !.isTimerActive = FALSE ]
                  ELSE app
            rebuilds == starts /\ notified = STABLE
        IN  /\ EffectsDone
            /\ app' = Rendered([ a1 EXCEPT !.timeLeft = next ])
            /\ FieldsBecome(IF rebuilds
                            THEN RebuildOp(DismantleOp(Engine, rnd),
                                           Preset(app.nextTargetModel), TRUE, now)
                            ELSE Engine)
            /\ call' = CallOf("updateScrub", << >>, FALSE, dir)
            /\ pending' = IF rebuilds
                          THEN [ valid |-> TRUE, data |-> Preset(app.nextTargetModel) ]
                          ELSE pending
            /\ steps' = 1 - steps
            /\ UNCHANGED now

\* handleSelectModel(name, data)
HandleSelectModel ==
    \E name \in { "Eagle", "Cat" } :
        LET morphs == app.sessionStarted /\ ~app.isCompleting
        IN  /\ EffectsDone
            /\ app' = Rendered([ app EXCEPT !.nextTargetModel = name,
                                            !.currentBaseModel = name ])
            /\ FieldsBecome(IF morphs
                            THEN RebuildOp(Engine, Preset(name), TRUE, now)
                            ELSE LoadInitialModelOp(Engine, Preset(name), now))
            /\ call' = CallOf("handleSelectModel", Preset(name), morphs, 0)
            /\ pending' = IF morphs THEN [ valid |-> TRUE, data |-> Preset(name) ]
                          ELSE NoPending
            /\ UNCHANGED << now, steps >>

\* the engine's animate() frame
AppFrame ==
    /\ call.name # "new"
    /\ now < MaxNow
    /\ now' = now + 1
    /\ FieldsBecome(AnimateOp(Engine, now + 1))
    /\ call' = CallOf("animate", << >>, FALSE, 0)
    /\ UNCHANGED << steps, pending, app >>

AppNext ==
    \/ AppMount
    \/ TimerTick
    \/ CompletionEffect
    \/ CompletingTimeout
    \/ ProgressEffect
    \/ HandleStartPomodoro
    \/ OnSetManualProgress
    \/ ScrubIdle
    \/ UpdateScrub
    \/ HandleSelectModel
    \/ AppFrame

SpecApp == Init /\ [][AppNext]_vars

\* A session under the events that move the timer: ticks, the slider, the
\* keyboard scrub, and the effects and the timeout they set off.  The browser
\* keeps running effects, timers and animation frames; what the user does is
\* not fair.
SessionNext ==
    \/ AppMount
    \/ TimerTick
    \/ CompletionEffect
    \/ CompletingTimeout
    \/ ProgressEffect
    \/ HandleStartPomodoro
    \/ OnSetManualProgress
    \/ ScrubIdle
    \/ UpdateScrub

SpecSession ==
    /\ Init
    /\ [][SessionNext]_vars
    /\ WF_vars(CompletionEffect)
    /\ WF_vars(ProgressEffect)
    /\ WF_vars(CompletingTimeout)
    /\ WF_vars(TimerTick)
    /\ WF_vars(ScrubIdle)

\* C27: whenever a session is started and timeLeft is 0, the session is
\* eventually finalized: finishRebuild() has been called, the engine is STABLE
\* with every voxel on its target, and sessionStarted and isTimerActive are
\* false.
C27_SessionAtZeroIsFinalized ==
    (app.sessionStarted /\ app.timeLeft = 0) ~>
        (/\ call.name = "finishRebuild"
         /\ state = STABLE
         /\ \A i \in Slots : i <= Len(rebuildTargets) /\ OnTarget(i)
         /\ ~app.sessionStarted
         /\ ~app.isTimerActive)

\* C28: whenever a session is started and no effect is due, the progress
\* stored in the engine is (total - timeLeft) / total of the App, clamped to
\* [0, 1].
C28_EngineProgressFollowsTimer ==
    (app.sessionStarted /\ EffectsDone) =>
        manualProgress = Max(0, IF ProgressScale - app.timeLeft > ProgressScale
                                THEN ProgressScale
                                ELSE ProgressScale - app.timeLeft)


\* C32: right after rebuild(T, progressive = true) returns, whatever was
\* called before it, the stored unlock fraction is 0: only targets of delay 0
\* are unlocked until setProgress is called.
C32_ProgressiveRebuildStartsAtZero ==
    (call.name = "rebuild" /\ call.progressive) =>
        /\ manualProgress = 0
        /\ \A i \in NonRubble :
            IsUnlocked(Engine, rebuildTargets[i], now) => rebuildTargets[i].delay.num = 0


C34_StableCallbackSeesFinishedStore ==
    [][ (\/ call'.name = "finishRebuild"
         \/ call'.name = "setProgress" /\ call'.p >= ProgressScale /\ state = REBUILDING) =>
            LET seen == FinishNotify(Engine).voxels
            IN  \A i \in NonRubble :
                    /\ seen[i].x = rebuildTargets[i].x
                    /\ seen[i].y = rebuildTargets[i].y
                    /\ seen[i].z = rebuildTargets[i].z ]_vars


\* getActiveModelData(): one record per voxel of the store, rubble included
getActiveModelData(e) == [ i \in 1 .. Len(e.voxels) |-> QuadOfVoxel(e.voxels[i]) ]

\* C35: after rebuild(T) and then finishRebuild(), getActiveModelData()
\* returns exactly the target model: one record per entry of T, with that
\* entry's coordinates and colour, and no other record; also when the store
\* held more voxels than T.
C35_ExportIsTarget ==
    (call.name = "finishRebuild" /\ pending.valid) =>
        LET out == getActiveModelData(Engine)
        IN  /\ Len(out) = Len(pending.data)
            /\ \A q \in { out[i] : i \in DOMAIN out }
                        \cup { QuadOfData(pending.data[j]) : j \in DOMAIN pending.data } :
                   Cardinality({ i \in DOMAIN out : out[i] = q })
                       = Cardinality({ j \in DOMAIN pending.data :
                                         QuadOfData(pending.data[j]) = q })


\* C39: on integer coordinates normalizeVoxels is idempotent and a rigid
\* translation: normalizing its result gives the result again, and for every
\* two voxels of the list the coordinate differences, the order and the
\* colours are those of the input.
C39_NormalizeIsRigidAndIdempotent ==
    call.name = "onSelectCustomRebuild" =>
        LET raw == call.data
            out == pending.data
        IN  /\ normalizeVoxels(out) = out
            /\ DOMAIN out = DOMAIN raw
            /\ \A i, j \in DOMAIN raw :
                /\ out[i].x - out[j].x = raw[i].x - raw[j].x
                /\ out[i].y - out[j].y = raw[i].y - raw[j].y
                /\ out[i].z - out[j].z = raw[i].z - raw[j].z
                /\ out[i].color = raw[i].color

\* an odd extent in x and z: the centre falls between two cells, the result
\* is centred on 1/2 and moved by the normalization
C39_Witness ==
    /\ call.name = "onSelectCustomRebuild"
    /\ Len(call.data) = 2
    /\ call.data[1].x = 1 /\ call.data[2].x = 2
    /\ call.data[1].z = 3 /\ call.data[2].z = 0
    /\ call.data[1].y = 1
    /\ pending.data # call.data
    /\ pending.data[1].x = 0 /\ pending.data[2].x = 1

\* C37: between two moments at which sessionStarted turns from false to true
\* the completion effect increments buildStats[currentBaseModel] at most once
\* and calls finishRebuild() at most once, however ticks, scrubs, effect
\* re-runs and the isCompleting timeout interleave: a completion happens only
\* in a started session that has had none yet, and ends it.
C37_OneCompletionPerSession ==
    [][ /\ app'.completions <= 1
        /\ (call'.name = "finishRebuild" /\ app'.completions # app.completions) =>
               /\ app.sessionStarted
               /\ app.completions = 0
               /\ ~app'.sessionStarted ]_vars

\* a session completed, the timeout ran, and a second session completed too
C37_Witness ==
    /\ call.name = "finishRebuild"
    /\ app.completions = 1
    /\ app.isCompleting
    /\ app.currentBaseModel = "Cat"
    /\ ~app.isWorkMode

\* ---------------------------------------------------------------------------
\* The App of src/unnamed/part_005: handleStartPomodoro dismantles at once and
\* leaves the rebuild to a 600 ms timeout that nothing clears.  pending is
\* that timeout and the nextTargetModel.data its closure captured (one at a
\* time); the completion stands in the timer effect, for which completionDue
\* is the due flag.  The tenth specification SpecDelayed runs this App.
\* ---------------------------------------------------------------------------

\* handleStartPomodoro of part_005
DelayedStart ==
    \E rnd \in RandomStreams :
        /\ EffectsDone
        /\ ~app.sessionStarted \/ app.timeLeft <= 0
        /\ ~pending.valid
        /\ app' = Rendered([ app EXCEPT !.sessionStarted = TRUE, !.isTimerActive = TRUE,
                                        !.timeLeft = ProgressScale,
                                        !.currentBaseModel = app.nextTargetModel ])
        /\ FieldsBecome(DismantleOp(Engine, rnd))
        /\ call' = CallOf("handleStartPomodoro", << >>, FALSE, 0)
        /\ pending' = [ valid |-> TRUE, data |-> Preset(app.nextTargetModel) ]
        /\ UNCHANGED << now, steps >>

\* the callback of setTimeout(..., 600): rebuild(nextTargetModel.data, true),
\* setProgress(0)
DelayedRebuild ==
    /\ EffectsDone
    /\ pending.valid
    /\ FieldsBecome(SetProgressOp(RebuildOp(Engine, pending.data, TRUE, now), 0, now))
    /\ call' = CallOf("delayedRebuild", pending.data, TRUE, 0)
    /\ pending' = NoPending
    /\ UNCHANGED << now, steps, app >>

\* the timer effect of part_005 at timeLeft === 0 with the timer active, and
\* its other branches, which set or clear the interval only
TimerEffect ==
    \E nextKey \in { "Eagle", "Cat" } \ { app.currentBaseModel } :
        /\ call.name # "new"
        /\ app.completionDue
        /\ IF app.timeLeft = 0 /\ app.isTimerActive
           THEN /\ app' = Rendered([ app EXCEPT !.completionDue = FALSE,
                                                !.isTimerActive = FALSE,
                                                !.sessionStarted = FALSE,
                                                !.nextTargetModel =
                                                    IF app.isWorkMode THEN nextKey ELSE @ ])
                /\ FieldsBecome(FinishRebuildOp(Engine, now))
                /\ call' = CallOf("finishRebuild", << >>, FALSE, 0)
           ELSE /\ app' = [ app EXCEPT !.completionDue = FALSE ]
                /\ FieldsBecome(Engine)
                /\ call' = CallOf("timerEffect", << >>, FALSE, 0)
        /\ UNCHANGED << now, steps, pending >>

\* handleResetTimer
HandleResetTimer ==
    /\ EffectsDone
    /\ app' = Rendered([ app EXCEPT !.isTimerActive = FALSE, !.sessionStarted = FALSE,
                                    !.timeLeft = ProgressScale ])
    /\ FieldsBecome(LoadInitialModelOp(Engine, Preset(app.currentBaseModel), now))
    /\ call' = CallOf("handleResetTimer", Preset(app.currentBaseModel), FALSE, 0)
    /\ UNCHANGED << now, steps, pending >>

\* handleNewScene(type)
HandleNewScene ==
    \E type \in { "Eagle", "Cat" } :
        /\ EffectsDone
        /\ app' = Rendered([ app EXCEPT !.nextTargetModel = type, !.currentBaseModel = type,
                                        !.sessionStarted = FALSE, !.isTimerActive = FALSE,
                                        !.timeLeft = ProgressScale ])
        /\ FieldsBecome(LoadInitialModelOp(Engine, Preset(type), now))
        /\ call' = CallOf("handleNewScene", Preset(type), FALSE, 0)
        /\ UNCHANGED << now, steps, pending >>

\* the first tick of the interval comes 1000 ms after the start, later than
\* the timeout
DelayedNext ==
    \/ AppMount
    \/ DelayedStart
    \/ DelayedRebuild
    \/ ~pending.valid /\ TimerTick
    \/ TimerEffect
    \/ ProgressEffect
    \/ HandleResetTimer
    \/ HandleNewScene
    \/ AppFrame

SpecDelayed == Init /\ [][DelayedNext]_vars

\* C38: handleResetTimer and handleNewScene leave the session not started and
\* the engine STABLE, and while the session stays not started the engine
\* stays STABLE: a rebuild left pending by an earlier start does not fire
\* into it.
C38_ResetSessionStaysStable ==
    [][ /\ call'.name \in { "handleResetTimer", "handleNewScene" } =>
               ~app'.sessionStarted /\ state' = STABLE
        /\ (call.name # "new" /\ ~app.sessionStarted /\ ~app'.sessionStarted
                /\ state = STABLE) =>
               state' = STABLE ]_vars

\* ---------------------------------------------------------------------------
\* A scrub session on the engine of src/unnamed/part_002: a model is loaded,
\* a progress may be stored, one progressive rebuild starts, and from then on
\* frames run while setProgress is called now and then.  Every call after the
\* load reads a later clock; steps counts the frames since the last call, up
\* to MaxTicks; pending.far is the largest distance, on one axis, between a
\* non-rubble voxel and its target when the rebuild returned.  The eleventh
\* specification SpecScrub runs it.
\* ---------------------------------------------------------------------------

ScrubPreset ==
    \E p \in ProgressValues :
        /\ call.name = "loadInitialModel"
        /\ Becomes(SetProgressOp(Engine, p, now))
        /\ call' = CallOf("setProgress", << >>, FALSE, p)
        /\ UNCHANGED << now, steps, pending >>

ScrubRebuild ==
    \E data \in Models :
        /\ call.name \in { "loadInitialModel", "setProgress" }
        /\ state = STABLE
        /\ now < MaxNow
        /\ now' = now + 1
        /\ LET e1 == RebuildOp(Engine, data, TRUE, now + 1)
               gaps == { 0 } \cup UNION { { Abs(e1.rebuildTargets[i].x - e1.voxels[i].x),
                                            Abs(e1.rebuildTargets[i].y - e1.voxels[i].y),
                                            Abs(e1.rebuildTargets[i].z - e1.voxels[i].z) } :
                                          i \in { j \in 1 .. Len(e1.voxels) :
                                                    ~e1.rebuildTargets[j].isRubble } }
           IN  /\ Becomes(e1)
               /\ pending' = [ valid |-> TRUE, data |-> data,
                               far |-> CHOOSE d \in gaps : \A g \in gaps : g <= d ]
        /\ call' = CallOf("rebuild", data, TRUE, 0)
        /\ steps' = 0

ScrubSetProgress ==
    \E p \in ProgressValues :
        /\ call.name \in { "rebuild", "animate" }
        /\ now < MaxNow
        /\ now' = now + 1
        /\ Becomes(SetProgressOp(Engine, p, now + 1))
        /\ call' = CallOf("setProgress", << >>, FALSE, p)
        /\ steps' = 0
        /\ UNCHANGED pending

ScrubFrame ==
    /\ call.name \in { "rebuild", "setProgress", "animate" }
    /\ state = REBUILDING
    /\ Becomes(AnimateOp(Engine, now))
    /\ call' = CallOf("animate", << >>, FALSE, 0)
    /\ steps' = IF steps < MaxTicks THEN steps + 1 ELSE steps
    /\ UNCHANGED << now, pending >>

ScrubNext ==
    \/ AutoLoad
    \/ ScrubPreset
    \/ ScrubRebuild
    \/ ScrubSetProgress
    \/ ScrubFrame

SpecScrub == Init /\ [][ScrubNext]_vars

RECURSIVE LerpTicks(_)
\* frames the interpolation v += (t - v) * lerpSpeed takes from a distance d
\* on one axis to the tolerance
LerpTicks(d) ==
    IF d <= Tolerance THEN 0 ELSE 1 + LerpTicks(d - Scale(d, LERP_PCT, 100))

\* C31: in a REBUILDING state whose stored progress is 1.0, so that every
\* non-rubble voxel is unlocked, with frames only after the last call, no
\* frame takes a non-rubble voxel farther from its target on any axis, each
\* frame takes at least the fixed rate off what exceeds the rounding, and
\* after the number of frames that rate needs for the largest distance the
\* rebuild left on an axis every non-rubble voxel is within the tolerance.
C31_UnlockedVoxelsConverge ==
    [][ (/\ call'.name = "animate"
         /\ state = REBUILDING
         /\ manualProgress = ProgressScale
         /\ \A i \in NonRubble : IsUnlocked(Engine, rebuildTargets[i], now)) =>
            \A i \in NonRubble :
                LET t == rebuildTargets[i]
                    Closer(d0, d1) ==
                        /\ Abs(d1) <= Abs(d0)
                        /\ 100 * Abs(d1) < (100 - LERP_PCT) * Abs(d0) + 100
                        /\ steps' >= LerpTicks(pending.far) => Abs(d1) <= Tolerance
                IN  /\ Closer(t.x - voxels[i].x, t.x - voxels'[i].x)
                    /\ Closer(t.y - voxels[i].y, t.y - voxels'[i].y)
                    /\ Closer(t.z - voxels[i].z, t.z - voxels'[i].z) ]_vars

\* a voxel that started a whole unit away on every axis has come within the
\* tolerance of its target, frame by frame, at progress 1.0
C31_Witness ==
    /\ call.name = "animate"
    /\ state = REBUILDING
    /\ isProgressive
    /\ manualProgress = ProgressScale
    /\ pending.far = Fixed
    /\ steps = LerpTicks(pending.far)
    /\ \E i \in NonRubble :
        /\ voxels[i].x # rebuildTargets[i].x
        /\ voxels[i].y # rebuildTargets[i].y
        /\ voxels[i].z # rebuildTargets[i].z
        /\ Abs(rebuildTargets[i].y - voxels[i].y) <= Tolerance

\* C36: in a progressive REBUILDING, while the progress is held below the
\* delay of a non-rubble voxel (as after a backward scrub), no frame
\* interpolates that voxel toward its target: it keeps its column and sinks
\* (or settles at the parking height); once below the hide threshold it stays
\* below it and is drawn at the effectively-zero scale; and after MaxTicks
\* frames of holding it is below the threshold and drawn so.
C36_RelockedVoxelSinksAndHides ==
    [][ (call'.name = "animate" /\ state = REBUILDING /\ isProgressive) =>
            \A i \in NonRubble :
                ~IsUnlocked(Engine, rebuildTargets[i], now) =>
                    /\ voxels'[i].x = voxels[i].x
                    /\ voxels'[i].z = voxels[i].z
                    /\ voxels'[i].y <= voxels[i].y \/ voxels'[i].y <= ParkY
                    /\ voxels[i].y < HideY =>
                           voxels'[i].y < HideY /\ frame'[i] = "TINY"
                    /\ steps' = MaxTicks =>
                           voxels'[i].y < HideY /\ frame'[i] = "TINY" ]_vars

\* a voxel was being interpolated (it stands between two pool positions), the
\* progress was then set to 0, below its delay, and held: it has sunk out of
\* sight
C36_Witness ==
    /\ call.name = "animate"
    /\ state = REBUILDING
    /\ isProgressive
    /\ now > rebuildStartTime
    /\ manualProgress = 0
    /\ steps = MaxTicks
    /\ \E i \in NonRubble :
        /\ ~IsUnlocked(Engine, rebuildTargets[i], now)
        /\ voxels[i].x > 0
        /\ voxels[i].x < Fixed
        /\ voxels[i].y < HideY
        /\ frame[i] = "TINY"

====
